---------------------------- MODULE Spec2Model ----------------------------
(***************************************************************************)
(* A model of the USCF Swiss pairing engine of betap.C: the Cost record    *)
(* and its order, canonicalisation, hint / first pairings, the cost        *)
(* function, the greedy optimiser, finalisation and the tiebreak pass.     *)
(*                                                                         *)
(* Conventions.  C++ vectors are sequences; the code's index k is position *)
(* k+1 (see At, Put).  Ranks, pair indices, pBegin and pEnd keep the       *)
(* code's 0-based values.  A score is held doubled (half points are        *)
(* integers).  Characters are one-letter strings, a text is a sequence of  *)
(* them.  The code's "play_id_reentry" opponent keys are <<play_id,        *)
(* reentry>> tuples.  warn_codes and the costDescription side table are    *)
(* write-only outputs of the cost function and are left out.               *)
(***************************************************************************)
EXTENDS Integers, Sequences, FiniteSets, TLC

VARIABLES
  prm,           \* PlayerResultMap &prm (specification SpecTiebreak)
  c1, c2,        \* two Cost records handed to operator< (specification SpecCost)
  pc,            \* position inside FindPairings, or inside TiebreakCalculation
  arg,           \* the arguments of the current call
  pl,            \* PlayerVector &pl
  pair,          \* IndexVector pair
  players,       \* size_t players of FindPairings
  opt,           \* the locals of MinimizePairingCost
  cost,          \* the Cost FindPairings returns
  call,          \* which call of FindPairings this is (1 or 2)
  first,         \* the input and the result of the first call
  pre            \* what the returned cost was computed on

vars == <<prm, c1, c2, pc, arg, pl, pair, players, opt, cost, call, first, pre>>

----------------------------------------------------------------------------
(* Vectors *)

At(v, k) == v[k + 1]
Put(v, k, e) == [v EXCEPT ![k + 1] = e]
Swap(v, a, b) == [v EXCEPT ![a + 1] = v[b + 1], ![b + 1] = v[a + 1]]
Min(a, b) == IF a <= b THEN a ELSE b
Max(a, b) == IF a >= b THEN a ELSE b
Abs(a) == IF a < 0 THEN -a ELSE a
B2N(b) == IF b THEN 1 ELSE 0
Range(v) == {v[k] : k \in DOMAIN v}

RECURSIVE SumSeq(_)
SumSeq(v) == IF v = <<>> THEN 0 ELSE Head(v) + SumSeq(Tail(v))

RECURSIVE Pow(_, _)
Pow(b, e) == IF e <= 0 THEN 1 ELSE b * Pow(b, e - 1)

----------------------------------------------------------------------------
(* struct Cost and its order *)

BYE_ID == 0
MAX_RATING == 30001

\* the members of struct Cost in memory order: the 26 counters, then players
CostFields ==
  << "byeChoice", "byeAgain", "playersMeetTwice", "cantPairPlayers",
     "teamBlocks2", "unequalScores", "teamBlocks", "cantPairTeams",
     "byeAfterHalf", "lowestScoreBye", "lowestRatedBye", "oddPlayerUnrated",
     "oddPlayerMultipleGroups", "interchange200", "transpose200",
     "colorImbalance", "colorRepeat3", "interchange80", "transpose80",
     "colorAlternate", "interchange0", "transpose0", "pairingCard",
     "reversedColors", "boardOverlap", "boardOrder", "players" >>

\* the counters only (what the rule book orders)
NumCounters == 26
CounterFields == SubSeq(CostFields, 1, NumCounters)

\* Cost::Cost(): memset to zero
ZeroCost == [f \in Range(CostFields) |-> 0]

\* Cost::IsZero(): memcmp against a zero record with the same players
IsZero(c) == c = [ZeroCost EXCEPT !.players = c.players]

\* the number of words operator< walks over: sizeof(c1)/sizeof(c1.byeChoice)
CostWords == Len(CostFields)

\* operator< (Cost): the first differing word decides
CostLess(a, b) ==
  \E k \in 1..CostWords :
    /\ a[CostFields[k]] < b[CostFields[k]]
    /\ \A j \in 1..(k - 1) : a[CostFields[j]] = b[CostFields[j]]

\* operator== (Cost): !(x < y || y < x)
CostEq(a, b) == ~(CostLess(a, b) \/ CostLess(b, a))
\* operator!= (Cost)
CostNe(a, b) == ~CostEq(a, b)

----------------------------------------------------------------------------
(* struct Player *)

\* the sentinel CanonicalPlayerVector appends: a value-initialised Player
\* (every scalar zero, every vector empty) with the fields it then sets
ByePlayer(rnd, multiround) ==
  [ trn_type |-> "", rnd |-> rnd, board_num |-> -1, board_color |-> "",
    play_id |-> BYE_ID, reentry |-> 0, teammates |-> <<>>, opponents |-> <<>>,
    score |-> 0, rating |-> 0, is_unrated |-> FALSE, use_rating |-> "",
    provisional |-> 0, rand |-> 0, bye_house |-> FALSE, bye_request |-> FALSE,
    unplayed_count |-> 0, half_bye_count |-> 0, bye_rounds |-> <<>>,
    due_color |-> <<>>, color_history |-> <<>>, played_colors |-> <<>>,
    first_color |-> "", multiround |-> multiround, paired |-> FALSE,
    rank |-> 0, teammate_ranks |-> <<>>, opponent_ranks |-> <<>> ]

IsBye(p) == p.play_id = BYE_ID

\* operator< (Player): sort predicate for players (and boards)
PlayerLess(x, y) ==
  \/ B2N(IsBye(x)) < B2N(IsBye(y))
  \/ /\ IsBye(x) = IsBye(y)
     /\ \/ B2N(x.bye_request) < B2N(y.bye_request)
        \/ /\ x.bye_request = y.bye_request
           /\ \/ B2N(x.paired) < B2N(y.paired)
              \/ /\ x.paired = y.paired
                 /\ \/ x.score > y.score
                    \/ /\ x.score = y.score
                       /\ \/ x.rating > y.rating
                          \/ /\ x.rating = y.rating
                             /\ \/ x.rand < y.rand
                                \/ /\ x.rand = y.rand
                                   /\ \/ x.play_id < y.play_id
                                      \/ /\ x.play_id = y.play_id
                                         /\ x.reentry < y.reentry

\* operator<= (Player): !(x > y), that is !(y < x)
PlayerLe(x, y) == ~PlayerLess(y, x)

----------------------------------------------------------------------------
(* Colours *)

LowerLetters == {"w", "b", "x", "f", "h", "z"}
IsLower(c) == c \in LowerLetters
\* isupper() on the letters a due colour can hold
IsUpper(c) == c \in {"W", "B"}
ToUpper(c) ==
  CASE c = "w" -> "W" [] c = "b" -> "B" [] c = "x" -> "X"
    [] c = "f" -> "F" [] c = "h" -> "H" [] c = "z" -> "Z" [] OTHER -> c
ToLower(c) ==
  CASE c = "W" -> "w" [] c = "B" -> "b" [] OTHER -> c

SameColor(color) ==
  IF ToUpper(color) = "W" THEN "W" ELSE IF ToUpper(color) = "B" THEN "B" ELSE "x"
FlipColor(color) ==
  IF ToUpper(color) = "W" THEN "B" ELSE IF ToUpper(color) = "B" THEN "W" ELSE "x"

CountOf(v, c) == Cardinality({k \in DOMAIN v : v[k] = c})
Repeat(c, n) == [k \in 1..n |-> c]

\* the history with every slot kept
CompressNone(history, multiround) == history

\* the first slot of each multiround block (DueColor's h2)
Compress(history, multiround) ==
  IF multiround # 1 /\ Len(history) > 0
    THEN [k \in 1..((Len(history) + multiround - 1) \div multiround) |->
            history[(k - 1) * multiround + 1]]
    ELSE history

\* the most recent played colour of a history, scanning backwards ("" if none)
RECURSIVE LastPlayed(_)
LastPlayed(h) ==
  IF h = <<>> THEN ""
  ELSE IF h[Len(h)] \in {"W", "B"} THEN h[Len(h)]
  ELSE LastPlayed(SubSeq(h, 1, Len(h) - 1))

\* the flip of the last played colour, however many Whites and Blacks
DueColorAlternates(history, multiround) ==
  LET h == Compress(history, multiround)
  IN  IF LastPlayed(h) # "" THEN <<ToLower(FlipColor(LastPlayed(h)))>>
      ELSE <<"x">>

\* string DueColor (text history, smallint multiround)
DueColor(history, multiround) ==
  LET h == Compress(history, multiround)
      unplayed == Cardinality({k \in DOMAIN h : IsLower(h[k])})
      whites == CountOf(h, "W")
      blacks == CountOf(h, "B")
  IN  IF unplayed = Len(h) THEN <<"x">>
      ELSE IF whites > blacks THEN Repeat("B", whites - blacks)
      ELSE IF blacks > whites THEN Repeat("W", blacks - whites)
      ELSE IF LastPlayed(h) # "" THEN <<ToLower(FlipColor(LastPlayed(h)))>>
      ELSE <<"x">>

OppKey(p) == <<p.play_id, p.reentry>>

\* the flip of x's colour in the most recent round where the two histories
\* differ, whether x played that round or not
RECURSIVE HistoryTieBreakOfX(_, _, _)
HistoryTieBreakOfX(hx, hy, z) ==
  IF z = 0 THEN ""
  ELSE IF SameColor(hx[z]) # SameColor(hy[z]) THEN FlipColor(hx[z])
  ELSE HistoryTieBreakOfX(hx, hy, z - 1)

\* the most recent round where the two histories show different colours
\* (rule 29E4.4), scanning backwards from z; "" when there is none
RECURSIVE HistoryTieBreak(_, _, _)
HistoryTieBreak(hx, hy, z) ==
  IF z = 0 THEN ""
  ELSE IF SameColor(hx[z]) # SameColor(hy[z])
    THEN (IF SameColor(hx[z]) = "x" THEN SameColor(hy[z]) ELSE FlipColor(hx[z]))
  ELSE HistoryTieBreak(hx, hy, z - 1)

\* x given its due colour whatever the ranks
RankTieBreakToX(x, y) == SameColor(x.due_color[1])

\* the rank fallback on line 1022, rule 29E4.5
RankTieBreak(x, y) ==
  IF x.rank < y.rank THEN SameColor(x.due_color[1]) ELSE FlipColor(y.due_color[1])

\* char AllocateColor (const Player &x, const Player &y, bool isOddBoard):
\* the colour of x on a board against y
AllocateColor(x, y, isOddBoard) ==
  LET isUpper == PlayerLess(x, y)
      met == {z \in DOMAIN x.opponents : x.opponents[z] = OppKey(y)}
      matchCountWhite == Cardinality({z \in met : ToUpper(x.played_colors[z]) = "W"})
      matchCountBlack == Cardinality({z \in met : ToUpper(x.played_colors[z]) = "B"})
      xd == x.due_color
      yd == y.due_color
      tie == HistoryTieBreak(x.color_history, y.color_history,
                             Len(x.color_history))
  IN  IF IsBye(y) THEN "W"
      ELSE IF IsBye(x) THEN "B"
      ELSE IF xd = <<"x">> /\ yd = <<"x">>
        THEN (IF (IF isUpper THEN isOddBoard ELSE ~isOddBoard)
                THEN SameColor(x.first_color) ELSE FlipColor(x.first_color))
      ELSE IF matchCountWhite < matchCountBlack THEN "W"
      ELSE IF matchCountBlack < matchCountWhite THEN "B"
      ELSE IF yd = <<"x">> THEN SameColor(xd[1])
      ELSE IF xd = <<"x">> THEN FlipColor(yd[1])
      ELSE IF SameColor(yd[1]) # SameColor(xd[1]) THEN SameColor(xd[1])
      ELSE IF IsUpper(xd[1]) /\ (~IsUpper(yd[1]) \/ Len(xd) > Len(yd))
        THEN SameColor(xd[1])
      ELSE IF IsUpper(yd[1]) /\ (~IsUpper(xd[1]) \/ Len(yd) > Len(xd))
        THEN FlipColor(yd[1])
      ELSE IF tie # "" THEN tie
      ELSE RankTieBreak(x, y)

----------------------------------------------------------------------------
(* Cost terms of one board.  Each F(x, y, ...) is the C++ F(wCode, x, y,   *)
(* ...) without its warning letter.                                        *)

\* CostValue Multiple (CostValue cv, size_t players, char wCode): the sum of
\* players^x for x < cv (the sums of this model stay far below MaxCostValue,
\* where the code clamps)
RECURSIVE Multiple(_, _)
Multiple(cv, n) == IF cv <= 0 THEN 0 ELSE Multiple(cv - 1, n) + Pow(n, cv - 1)

\* rules 22C, 28M1, 29K
ByeChoice(x, y) ==
  B2N(/\ ~IsBye(x)
      /\ ~x.bye_house
      /\ (IF x.bye_request THEN ~IsBye(y) ELSE IsBye(y)))

\* rule 28L3
ByeAgain(x, y, n) ==
  IF ~IsBye(x) /\ IsBye(y) THEN Multiple(CountOf(x.color_history, "f"), n) ELSE 0

IdenticalMatch(x, y, n, xColor) ==
  LET rematchX == Cardinality({z \in DOMAIN x.opponents :
                     x.opponents[z] = OppKey(y) /\ x.played_colors[z] = xColor})
      rematchY == Cardinality({z \in DOMAIN y.opponents :
                     y.opponents[z] = OppKey(x)
                     /\ y.played_colors[z] = FlipColor(xColor)})
  IN  Multiple(Max(rematchX, rematchY), n)

\* rules 27A1, 28S1, 28S2, 29C2; I() strips the reentry from an opponent key
PlayersMeetTwice(x, y, n) ==
  LET rematchX == Cardinality({z \in DOMAIN x.opponents :
                                 x.opponents[z][1] = y.play_id})
      rematchY == Cardinality({z \in DOMAIN y.opponents :
                                 y.opponents[z][1] = x.play_id})
  IN  Multiple(Max(rematchX, rematchY), n)

\* rules 27A2, 29A, 29B; scores are doubled, so 2*fabs(x.score-y.score) and
\* 2*Max(x.score,y.score) are the doubled values themselves
UnequalScores(x, y, n, remainingRounds) ==
  IF x.score # y.score /\ x.rank < y.rank
    THEN Multiple(Abs(x.score - y.score), x.rnd) * x.rnd + Max(x.score, y.score)
    ELSE 0

\* rules 28N, 28N1, 28T
TeamBlocks(x, y, n) ==
  IF x.rank < y.rank
    THEN Multiple(Cardinality({z \in DOMAIN x.teammates :
                                 x.teammates[z] = y.play_id}), n)
    ELSE 0

\* rule 28L4
ByeAfterHalf(x, y, n) ==
  IF ~IsBye(x) /\ IsBye(y) /\ ~x.bye_request
    THEN Multiple(x.half_bye_count, n) ELSE 0

\* rule 28L2; x.score - lowestScore > 0.25 on doubled scores is > 0
LowestScoreBye(x, y, n, lowestScore) ==
  IF ~IsBye(x) /\ IsBye(y) /\ ~x.bye_request /\ x.score - lowestScore > 0
    THEN Multiple(x.score - lowestScore, n) ELSE 0

\* rule 28L2 without the count of games: 1 for every unrated bye receiver
LowestRatedByeFlat(x, y, remainingRounds) ==
  B2N(~IsBye(x) /\ IsBye(y) /\ ~x.bye_request /\ x.is_unrated
      /\ x.use_rating # "none")

\* rule 28L2
LowestRatedBye(x, y, remainingRounds) ==
  IF ~IsBye(x) /\ IsBye(y) /\ ~x.bye_request /\ x.is_unrated
     /\ x.use_rating # "none"
    THEN (IF x.provisional + (x.rnd + remainingRounds - x.unplayed_count - 1) < 4
            THEN 2 ELSE 1)
    ELSE 0

\* rule 29D1 (MATCH_SWISS_SYS is 0)
OddPlayerUnrated(x, y) ==
  B2N(~IsBye(x) /\ ~IsBye(y) /\ x.score # y.score /\ x.is_unrated
      /\ x.use_rating # "none")

\* rule 29D2; x.score - y.score > 0.75 on doubled scores is >= 2, and
\* 2*(x.score-y.score-0.5) is the doubled difference less one
OddPlayerMultipleGroups(x, y, n) ==
  IF ~IsBye(x) /\ ~IsBye(y) /\ x.score - y.score >= 2
    THEN Multiple(x.score - y.score - 1, n) ELSE 0

\* rules 27A4, 29E4
ColorImbalance(x, y, xColor) ==
  B2N(~IsBye(x) /\ ~IsBye(y)
      /\ x.due_color[1] = ToUpper(x.due_color[1]) /\ xColor # x.due_color[1])

\* the count of ColorRepeat3: 1 + the run of xColor at the end of the
\* history, byes and unplayed rounds skipped, stopped by the other colour
RECURSIVE RepeatCount(_, _, _)
RepeatCount(h, z, xColor) ==
  IF z = 0 THEN 1
  ELSE IF h[z] = xColor THEN 1 + RepeatCount(h, z - 1, xColor)
  ELSE IF h[z] = FlipColor(xColor) THEN 1
  ELSE RepeatCount(h, z - 1, xColor)

\* rule 29E5f
ColorRepeat3(x, y, xColor) ==
  IF IsBye(x) \/ IsBye(y) THEN 0
  ELSE B2N(RepeatCount(x.color_history, Len(x.color_history), xColor) >= 3)

\* the last entry of a history that is not a lower-case letter ("" if none)
RECURSIVE LastNotLower(_, _)
LastNotLower(h, z) ==
  IF z = 0 THEN ""
  ELSE IF IsLower(h[z]) THEN LastNotLower(h, z - 1)
  ELSE h[z]

\* 1 for a lower-case due colour that is not honoured, and nothing else
ColorAlternateLower(x, y, xColor) ==
  B2N(~IsBye(x) /\ ~IsBye(y) /\ x.due_color[1] \in {"w", "b"} /\ xColor # ToUpper(x.due_color[1]))

\* rule 27A5
ColorAlternate(x, y, xColor) ==
  IF IsBye(x) \/ IsBye(y) THEN 0
  ELSE IF xColor # ToUpper(x.due_color[1])
    THEN B2N(LastNotLower(x.color_history, Len(x.color_history)) = xColor)
  ELSE 0

\* rules 27A3, 29C, 29D, 29E5; the two branches guarded by "false &&" in the
\* code never run and are left out, and with them highestRating
Interchange(x, y, n, medianRating, unratedRating, threshold) ==
  LET dl == threshold
      r0 == x.rating
      r1 == IF x.is_unrated /\ x.use_rating # "none" THEN unratedRating
            ELSE x.rating
      r2 == y.rating
      rm == medianRating
  IN  IF IsBye(x) THEN 0
      ELSE IF IsBye(y)
        THEN (IF rm + dl < r1 THEN n * MAX_RATING + r1 - rm ELSE 0)
      ELSE IF x.score = y.score /\ x.rank > y.rank /\ rm + dl < Min(r0, r2)
        THEN n * MAX_RATING + Min(r0, r2) - rm
      ELSE IF x.score < y.score /\ r0 + dl < rm
        THEN n * MAX_RATING + rm - r0
      ELSE IF x.score > y.score /\ rm + dl < r0
        THEN n * MAX_RATING + r0 - rm
      ELSE 0

ReversedColors(x, y, xColor) ==
  B2N(x.board_color # xColor /\ xColor = "W")

\* pl[pair[x]]
PlAt(pl_, pair_, x) == At(pl_, At(pair_, x))

\* IS_UNRATED(player) of Transpose, and the same test spelled out elsewhere
IsUnrated(p) == p.is_unrated /\ p.use_rating # "none"

\* what one round of Transpose's loop adds to cv, for the board at z, z+1
TransposeTerm(pl_, pair_, x, y, z, unratedRating, threshold) ==
  LET px == PlAt(pl_, pair_, x)
      py == PlAt(pl_, pair_, y)
      p1 == PlAt(pl_, pair_, z)
      p2 == PlAt(pl_, pair_, z + 1)
      n == Len(pl_)
      sx == px.score
      sy == py.score
      s1 == p1.score
      s2 == p2.score
      rx == IF IsUnrated(px) THEN unratedRating ELSE px.rating
      ry == IF IsUnrated(py) THEN unratedRating ELSE py.rating
      r1 == IF IsUnrated(p1) THEN unratedRating ELSE p1.rating
      r2 == IF IsUnrated(p2) THEN unratedRating ELSE p2.rating
      d2 == IF sy = sx /\ s1 = s2 THEN Min(r2 - rx, ry - r1) ELSE r2 - rx
      kx == px.rank
      k2 == p2.rank
      dl == threshold
  IN  (IF s1 = sx /\ dl < r1 - rx /\ (sx < sy \/ s1 > s2 \/ IsBye(p2))
         THEN n * MAX_RATING + r1 - rx ELSE 0)
      + (IF s2 = sx /\ dl < d2 /\ ~IsBye(p2) /\ (sx < sy \/ k2 < kx)
           THEN n * MAX_RATING + d2 ELSE 0)

\* the loop of Transpose: for (z = x + 1; z < pEnd; z += 2)
RECURSIVE TransposeLoop(_, _, _, _, _, _, _, _)
TransposeLoop(pl_, pair_, x, y, z, unratedRating, threshold, pEnd) ==
  IF z >= pEnd THEN 0
  ELSE TransposeTerm(pl_, pair_, x, y, z, unratedRating, threshold)
       + TransposeLoop(pl_, pair_, x, y, z + 2, unratedRating, threshold, pEnd)

\* rules 27A5, 29C, 29D, 29E.  "CostValue cv;" has no initialiser: where
\* px.rank < py.rank the code assigns cv = 0, and otherwise it only adds to
\* cv and returns it.  That read is undefined; uninit is what the build
\* makes of it.  Without optimisation (g++ -O0) the result is what the loop
\* adds on top of uninit.cv, the value the stack slot held; with
\* optimisation (g++ -O1 and above, uninit.fold) the compiler drops the
\* loop and the function returns 0.
Transpose(pl_, pair_, x, y, unratedRating, threshold, pBegin, pEnd, uninit) ==
  LET px == PlAt(pl_, pair_, x)
      py == PlAt(pl_, pair_, y)
  IN  IF IsBye(px) \/ IsBye(py) THEN 0
      ELSE IF px.rank < py.rank THEN 0
      ELSE IF uninit.fold THEN 0
      ELSE uninit.cv
           + TransposeLoop(pl_, pair_, x, y, x + 1, unratedRating, threshold, pEnd)

\* the boards of pair[pBegin..pEnd) as the positions of their first player
Boards(pBegin, pEnd) == {x \in pBegin..(pEnd - 1) : (x - pBegin) % 2 = 0}

\* a vector, sorted ascending
Sorted(v) == SortSeq(v, <)

\* if even number, take lower of two in the middle
MedianOf(sg) ==
  LET s == Sorted(sg) IN
  IF Len(s) % 2 = 1 THEN At(s, Len(s) \div 2)
  ELSE Min(At(s, Len(s) \div 2), At(s, Len(s) \div 2 - 1))

\* sg1 of MedianRating: both ratings of every board played inside the score
\* group
RECURSIVE Sg1(_, _, _, _, _)
Sg1(pl_, pair_, score, x, pEnd) ==
  IF x >= pEnd THEN <<>>
  ELSE LET px == PlAt(pl_, pair_, x)
           py == PlAt(pl_, pair_, x + 1)
       IN (IF px.score = score /\ py.score = score /\ ~IsBye(px) /\ ~IsBye(py)
             THEN <<px.rating, py.rating>> ELSE <<>>)
          \o Sg1(pl_, pair_, score, x + 2, pEnd)

\* sg2 of MedianRating: the rating of every player who wants a game
RECURSIVE Sg2(_, _, _, _)
Sg2(pl_, pair_, x, pEnd) ==
  IF x >= pEnd THEN <<>>
  ELSE LET px == PlAt(pl_, pair_, x)
       IN (IF ~IsBye(px) /\ ~px.bye_request THEN <<px.rating>> ELSE <<>>)
          \o Sg2(pl_, pair_, x + 1, pEnd)

MedianRating(pl_, pair_, score, pBegin, pEnd) ==
  LET sg1 == Sg1(pl_, pair_, score, pBegin, pEnd)
      sg2 == Sg2(pl_, pair_, pBegin, pEnd)
  IN  IF Len(sg1) > 0 THEN MedianOf(sg1)
      ELSE IF Len(sg2) > 0 THEN MedianOf(sg2)
      ELSE 0

UnratedRating(pl_, pair_, score, pBegin, pEnd) ==
  LET rated == {PlAt(pl_, pair_, x).rating : x \in
                 {x \in pBegin..(pEnd - 1) :
                    LET px == PlAt(pl_, pair_, x)
                    IN  /\ ~IsBye(px) /\ ~px.bye_request /\ px.score = score
                        /\ px.rating < MAX_RATING
                        /\ (~px.is_unrated \/ px.use_rating = "none")}}
  IN  IF rated = {} THEN 0
      ELSE CHOOSE r \in rated : \A q \in rated : r <= q

\* the test PairingCard applies to two positions of the same half
CardTransposed(pl_, pair_, a, b) ==
  LET pa == PlAt(pl_, pair_, a)
      pb == PlAt(pl_, pair_, b)
  IN  /\ pa.paired = pb.paired
      /\ pa.score = pb.score
      /\ (pa.rating = pb.rating \/ pa.rating = 0)
      /\ ~IsBye(pa) /\ ~IsBye(pb)
      /\ pa.rand > pb.rand

\* the test PairingCard applies for an interchange (b = 1, the rand of a
\* above that of b) and for a drop down (b = x - 1, the rand of a below)
CardSame(pl_, pair_, a, b) ==
  LET pa == PlAt(pl_, pair_, a)
      pb == PlAt(pl_, pair_, b)
  IN  /\ pa.paired = pb.paired
      /\ pa.score = pb.score
      /\ pa.rating = pb.rating
      /\ (pa.rating = pb.rating \/ pb.rating = 0)
      /\ ~IsBye(pa) /\ ~IsBye(pb)

IsDropDown(pl_, pair_, x) ==
  PlAt(pl_, pair_, x).score # PlAt(pl_, pair_, x + 1).score
    \/ IsBye(PlAt(pl_, pair_, x + 1))

\* every pair of positions <<a, b>> PairingCard counts, once per test that
\* counts it
CardHits(pl_, pair_) ==
  LET n == Len(pair_) IN
    {h \in {"upper"} \X Boards(0, n) \X Boards(0, n) :
        h[2] < h[3] /\ CardTransposed(pl_, pair_, h[2], h[3])}
    \cup
    {h \in {"lower"} \X {x + 1 : x \in Boards(0, n)} \X {x + 1 : x \in Boards(0, n)} :
        h[2] < h[3] /\ CardTransposed(pl_, pair_, h[2], h[3])}
    \cup
    {h \in {"interchange"} \X Boards(0, n) \X {1} :
        /\ ~IsDropDown(pl_, pair_, h[2])
        /\ CardSame(pl_, pair_, h[2], h[3])
        /\ PlAt(pl_, pair_, h[2]).rand > PlAt(pl_, pair_, h[3]).rand}
    \cup
    {h \in {"dropdown"} \X Boards(0, n) \X (0..(n - 1)) :
        /\ h[2] > 0 /\ h[3] = h[2] - 1
        /\ IsDropDown(pl_, pair_, h[2])
        /\ CardSame(pl_, pair_, h[2], h[3])
        /\ PlAt(pl_, pair_, h[2]).rand < PlAt(pl_, pair_, h[3]).rand}

RECURSIVE SumHits(_, _)
SumHits(hits, pair_) ==
  IF hits = {} THEN 0
  ELSE LET h == CHOOSE h \in hits : TRUE
       IN  Abs(At(pair_, h[2]) - At(pair_, h[3])) + SumHits(hits \ {h}, pair_)

\* size_t PairingCard (...): num, with SMOOTH the sum of the rank distances
PairingCard(pl_, pair_) == SumHits(CardHits(pl_, pair_), pair_)

\* what PairingCard inserts into costPlayers
PairingCardPlayers(pl_, pair_) ==
  UNION {{At(pair_, h[2]), At(pair_, h[3])} : h \in CardHits(pl_, pair_)}

BoardOverlap(pl_, pair_, x, y) ==
  IF x.rank < y.rank
    THEN Cardinality({z \in Boards(0, Len(pair_)) :
           /\ ~IsBye(PlAt(pl_, pair_, z + 1))
           /\ ~ \/ (x.play_id = PlAt(pl_, pair_, z).play_id
                    /\ x.reentry = PlAt(pl_, pair_, z).reentry)
                \/ (x.play_id = PlAt(pl_, pair_, z + 1).play_id
                    /\ x.reentry = PlAt(pl_, pair_, z + 1).reentry)
           /\ x.board_num = PlAt(pl_, pair_, z).board_num})
    ELSE 0

BoardOrder(pl_, pair_, px, py, x, y, pBegin, pEnd) ==
  LET w == Min(x, y) IN
  IF PlayerLess(px, py) /\ ~IsBye(px) /\ ~IsBye(py) /\ pBegin + 2 <= w /\ w < pEnd
    THEN LET pz2 == PlAt(pl_, pair_, w - 2)
             pz1 == PlAt(pl_, pair_, w - 1)
             m == Min(px.board_num, py.board_num)
         IN  B2N(/\ pz2.board_num > m /\ pz1.board_num > m
                 /\ pz1.paired = py.paired /\ pz2.paired = py.paired
                 /\ ~IsBye(pz1) /\ ~IsBye(pz2))
    ELSE 0

----------------------------------------------------------------------------
(* Pairable: can the remaining rounds still be paired?  A grid is a square *)
(* matrix of ints (row r, column c is At(At(grid, r), c)); the upper       *)
(* triangle holds the pairings being tried, the lower one the past.  The   *)
(* code writes the pairings it finds into the grid; PairableCost only uses *)
(* the boolean, and a failed attempt undoes every write it made, so the    *)
(* operators below pass the grid by value and return the boolean.          *)

Cell(grid, r, c) == At(At(grid, r), c)
SetCell(grid, r, c, v) == Put(grid, r, Put(At(grid, r), c, v))

\* the grid of the next round: this round's pairings move to the lower
\* triangle, and the upper triangle is cleared
NewGrid(grid, rounds) ==
  [r \in 1..Len(grid) |-> [c \in 1..Len(grid) |->
     IF r < c THEN 0
     ELSE IF c < r /\ grid[c][r] # 0 THEN rounds
     ELSE grid[r][c]]]

RECURSIVE PairableFrom(_, _, _, _, _, _)
RECURSIVE Pairable(_, _, _)

\* the two loops of Pairable(grid, rounds, bye, begin, end), resumed at
\* (row, col)
PairableFrom(grid, rounds, bye, end, row, col) ==
  LET n == Len(grid) IN
  IF ~(row < end /\ row < n) THEN FALSE
  ELSE IF Cell(bye, row, rounds - 1) # 0 \/ col >= n
    THEN PairableFrom(grid, rounds, bye, end, row + 1, row + 2)
  ELSE IF \/ Cell(bye, col, rounds - 1) # 0
          \/ Cell(grid, row, col) # 0 \/ Cell(grid, col, row) # 0
          \/ \E z \in 0..(row - 1) :
               Cell(grid, z, col) # 0 \/ Cell(grid, z, row) # 0
    THEN PairableFrom(grid, rounds, bye, end, row, col + 1)
  ELSE LET tried == SetCell(grid, row, col, rounds)
           isFound ==
             IF end >= n
               THEN (IF rounds <= 1 THEN TRUE
                     ELSE Pairable(NewGrid(tried, rounds), rounds - 1, bye))
               ELSE PairableFrom(tried, rounds, bye, end + 1, row + 1, row + 2)
       IN  IF isFound THEN TRUE
           ELSE PairableFrom(grid, rounds, bye, end, row, col + 1)

\* bool Pairable (PairGrid &grid, int rounds, const ByeGrid &bye, int begin,
\* int end)
Pairable5(grid, rounds, bye, begin, end) ==
  IF Len(grid) <= 1 THEN TRUE
  ELSE PairableFrom(grid, rounds, bye, end, begin, begin + 1)

\* bool Pairable (PairGrid &grid, int rounds, const ByeGrid &bye)
Pairable(grid, rounds, bye) ==
  IF rounds <= 0 THEN TRUE
  ELSE LET n == Len(grid)
           byes == SumSeq([x \in 1..n |-> bye[x][rounds]])
       IN  Pairable5(grid, rounds, bye, 0, n - (n - byes) \div 2 + 1)

\* the ByeGrid of PairableCost: bye[r1][rounds-rnd] = 1 for every requested
\* bye round rnd of the player of rank r1 that is still to come
ByeGridOf(pl_, rounds, remainingRounds) ==
  LET num == Len(pl_) - 1 IN
  [r \in 1..num |-> [k \in 1..remainingRounds |->
     B2N(\E y \in 1..num :
           /\ pl_[y].rank = r - 1
           /\ \E z \in DOMAIN pl_[y].bye_rounds :
                LET rnd == pl_[y].bye_rounds[z]
                IN  rnd <= rounds /\ rounds - rnd = k - 1)]]

\* the PairGrid of PairableCost: -11 on the diagonal, -1 in the lower
\* triangle for every past opponent and every board of the current pairing
PairGridOf(pl_, pair_) ==
  LET num == Len(pl_) - 1
      Met(hi, lo) ==
        \/ \E y \in 1..num : \E z \in DOMAIN pl_[y].opponent_ranks :
             LET r1 == pl_[y].rank
                 r2 == pl_[y].opponent_ranks[z]
             IN  r1 < num /\ r2 >= 0 /\ r2 < num
                 /\ hi = Max(r1, r2) /\ lo = Min(r1, r2)
        \/ \E y \in Boards(0, Len(pair_)) :
             LET r1 == At(pair_, y)
                 r2 == At(pair_, y + 1)
             IN  ~IsBye(At(pl_, r1)) /\ ~IsBye(At(pl_, r2))
                 /\ hi = Max(r1, r2) /\ lo = Min(r1, r2)
  IN  [r \in 1..num |-> [c \in 1..num |->
         IF r = c THEN -11
         ELSE IF c < r /\ Met(r - 1, c - 1) THEN -1
         ELSE 0]]

\* CostValue PairableCost (..., bool isTeam) with isTeam = false, its only
\* use while USE_28N3_0 is 1
PairableCost(pl_, pair_, remainingRounds) ==
  IF remainingRounds <= 0 THEN 0
  ELSE LET rounds == pl_[1].rnd + remainingRounds
       IN  B2N(~Pairable(PairGridOf(pl_, pair_), remainingRounds,
                         ByeGridOf(pl_, rounds, remainingRounds)))

----------------------------------------------------------------------------
(* CostFunction *)

\* the thresholds of the three Interchange / Transpose counters
Thresholds == {200, 80, 0}

\* "while (pBegin < pEnd && ...) pEnd -= 2": don't evaluate the granted bye
\* requests
RECURSIVE TrimEnd(_, _, _, _)
TrimEnd(pl_, pair_, pBegin, pEnd) ==
  IF /\ pBegin < pEnd
     /\ IsBye(PlAt(pl_, pair_, pEnd - 1))
     /\ (PlAt(pl_, pair_, pEnd - 2).bye_request \/ PlAt(pl_, pair_, pEnd - 2).bye_house)
    THEN TrimEnd(pl_, pair_, pBegin, pEnd - 2)
    ELSE pEnd

\* real lowestScore of CostFunction: pl[pair[0]].score, lowered to the
\* lowest score on the boards evaluated (the sentinel's 0 included)
LowestScore(pl_, pair_, pBegin, pEnd) ==
  LET start == IF Len(pl_) <= 0 \/ Len(pair_) <= 0 THEN 0
               ELSE PlAt(pl_, pair_, 0).score
      seen == {start} \cup {PlAt(pl_, pair_, x).score : x \in pBegin..(pEnd - 1)}
  IN  CHOOSE m \in seen : \A q \in seen : m <= q

\* the Cost one round of CostFunction's main loop adds to c for the board
\* of px and py, from the colour AllocateColor gave px and the INTERCHANGE
\* and TRANSPOSE sums of the three thresholds (inter, trans)
BoardRecord(pl_, pair_, x, px, py, xColor, inter, trans, remainingRounds, pBegin, pEnd, doCodes, lowestScore) ==
  [ZeroCost EXCEPT
    !.byeChoice = ByeChoice(px, py) + ByeChoice(py, px),
    !.byeAgain = ByeAgain(px, py, Len(pl_)) + ByeAgain(py, px, Len(pl_)),
    !.playersMeetTwice =
       IdenticalMatch(px, py, Len(pl_), xColor)
       + IdenticalMatch(py, px, Len(pl_), FlipColor(xColor))
       + PlayersMeetTwice(px, py, Len(pl_)) + PlayersMeetTwice(py, px, Len(pl_)),
    !.unequalScores = UnequalScores(px, py, Len(pl_), remainingRounds)
                      + UnequalScores(py, px, Len(pl_), remainingRounds),
    !.teamBlocks = TeamBlocks(px, py, Len(pl_)) + TeamBlocks(py, px, Len(pl_)),
    !.byeAfterHalf = ByeAfterHalf(px, py, Len(pl_)) + ByeAfterHalf(py, px, Len(pl_)),
    !.lowestScoreBye = LowestScoreBye(px, py, Len(pl_), lowestScore)
                       + LowestScoreBye(py, px, Len(pl_), lowestScore),
    !.lowestRatedBye = LowestRatedBye(px, py, remainingRounds)
                       + LowestRatedBye(py, px, remainingRounds),
    !.oddPlayerUnrated = OddPlayerUnrated(px, py) + OddPlayerUnrated(py, px),
    !.oddPlayerMultipleGroups = OddPlayerMultipleGroups(px, py, Len(pl_))
                                + OddPlayerMultipleGroups(py, px, Len(pl_)),
    !.interchange200 = inter[200],
    !.transpose200 = trans[200],
    !.colorImbalance =
       IF px.multiround % 2 = 1
         THEN ColorImbalance(px, py, xColor)
              + ColorImbalance(py, px, FlipColor(xColor)) ELSE 0,
    !.colorRepeat3 =
       IF px.multiround % 2 = 1
         THEN ColorRepeat3(px, py, xColor)
              + ColorRepeat3(py, px, FlipColor(xColor)) ELSE 0,
    !.interchange80 = inter[80],
    !.transpose80 = trans[80],
    !.colorAlternate =
       IF px.multiround % 2 = 1
         THEN ColorAlternate(px, py, xColor)
              + ColorAlternate(py, px, FlipColor(xColor)) ELSE 0,
    !.interchange0 = inter[0],
    !.transpose0 = trans[0],
    !.reversedColors =
       IF doCodes THEN ReversedColors(px, py, xColor)
                       + ReversedColors(py, px, FlipColor(xColor)) ELSE 0,
    !.boardOverlap =
       IF doCodes THEN BoardOverlap(pl_, pair_, px, py)
                       + BoardOverlap(pl_, pair_, py, px) ELSE 0,
    !.boardOrder =
       IF doCodes THEN BoardOrder(pl_, pair_, px, py, x, x + 1, pBegin, pEnd)
                       + BoardOrder(pl_, pair_, py, px, x + 1, x, pBegin, pEnd)
       ELSE 0]

\* the board of px = pl[pair[x]] and py = pl[pair[x+1]]: xColor, and the
\* macros INTERCHANGE(num) and TRANSPOSE(num) for num = 200, 80, 0.  The
\* medians and unrated ratings are cached by score in the code (lastScore);
\* they are functions of the score, so they are computed here.  hx and hy
\* only reach the branches of Interchange that never run.
BoardOf(pl_, pair_, x, px, py, remainingRounds, pBegin, pEnd, doCodes, lowestScore, uninit) ==
  BoardRecord(pl_, pair_, x, px, py,
    AllocateColor(px, py, (x \div 2) % 2 = 0),
    [num \in Thresholds |->
       Interchange(px, py, Len(pl_),
                   MedianRating(pl_, pair_, px.score, pBegin, pEnd),
                   UnratedRating(pl_, pair_, px.score, pBegin, pEnd), num)
       + Interchange(py, px, Len(pl_),
                     MedianRating(pl_, pair_, py.score, pBegin, pEnd),
                     UnratedRating(pl_, pair_, py.score, pBegin, pEnd), num)],
    [num \in Thresholds |->
       Transpose(pl_, pair_, x, x + 1,
                 UnratedRating(pl_, pair_, px.score, pBegin, pEnd), num,
                 pBegin, pEnd, uninit)
       + Transpose(pl_, pair_, x + 1, x,
                   UnratedRating(pl_, pair_, py.score, pBegin, pEnd), num,
                   pBegin, pEnd, uninit)],
    remainingRounds, pBegin, pEnd, doCodes, lowestScore)

\* what one round of CostFunction's main loop adds to c, for the board at
\* x, x+1.  uninit is what the reads of Transpose's cv give during this
\* evaluation.
BoardCost(pl_, pair_, x, remainingRounds, pBegin, pEnd, doCodes, lowestScore, uninit) ==
  BoardOf(pl_, pair_, x, PlAt(pl_, pair_, x), PlAt(pl_, pair_, x + 1),
          remainingRounds, pBegin, pEnd, doCodes, lowestScore, uninit)

\* the field-wise sum of two Cost records
CostAdd(a, b) == [f \in Range(CostFields) |-> a[f] + b[f]]

RECURSIVE CostSum(_)
CostSum(v) == IF v = <<>> THEN ZeroCost ELSE CostAdd(Head(v), CostSum(Tail(v)))

\* "c.byeChoice -= 1" where somebody must get the bye (line 1576)
MustBye(pl_, pair_, pBegin, pEnd) ==
  B2N(/\ ~ \E x \in pBegin..(pEnd - 1) : PlAt(pl_, pair_, x).bye_house
      /\ pEnd > 0
      /\ IsBye(PlAt(pl_, pair_, pEnd - 1))
      /\ ~PlAt(pl_, pair_, pEnd - 2).bye_request)

\* c and costPlayers after the main loop: inOrder holds what the loop added
\* for each board, first board first
CostTotal(pl_, pair_, remainingRounds, pBegin, pEnd, usePairableCost, inOrder) ==
  [ c |-> [CostSum(inOrder) EXCEPT
             !.players = Len(pl_) - 1,
             !.byeChoice = @ - MustBye(pl_, pair_, pBegin, pEnd),
             !.cantPairPlayers =
                IF usePairableCost
                  THEN PairableCost(pl_, pair_, remainingRounds) ELSE 0,
             !.pairingCard = PairingCard(pl_, pair_)],
    costPlayers |->
      UNION {{At(pair_, x), At(pair_, x + 1)} :
               x \in {b \in Boards(pBegin, pEnd) :
                        inOrder[(b - pBegin) \div 2 + 1] # ZeroCost}}
      \cup PairingCardPlayers(pl_, pair_) ]

\* CostFunction from its main loop on: pEnd is what "don't evaluate the
\* granted bye requests" left of it
CostLoop(pl_, pair_, remainingRounds, pBegin, pEnd, doCodes, usePairableCost, uninit) ==
  CostTotal(pl_, pair_, remainingRounds, pBegin, pEnd, usePairableCost,
    [k \in 1..((pEnd - pBegin) \div 2) |->
       BoardCost(pl_, pair_, pBegin + 2 * (k - 1), remainingRounds, pBegin, pEnd,
                 doCodes, LowestScore(pl_, pair_, pBegin, pEnd), uninit)])

\* Cost CostFunction (pl, pair, remainingRounds, pBegin, pEnd, doCodes,
\* usePairableCost, costPlayers): the record c it returns and the set
\* costPlayers it fills (the caller passes an empty one)
CostFunction(pl_, pair_, remainingRounds, pBegin, pEnd0, doCodes, usePairableCost, uninit) ==
  CostLoop(pl_, pair_, remainingRounds, pBegin, TrimEnd(pl_, pair_, pBegin, pEnd0),
           doCodes, usePairableCost, uninit)

----------------------------------------------------------------------------
(* Boards: SortBoards, HintPairings, FirstPairings *)

\* the test of SortBoards that ends the inner loop: the board at y-2, y-1
\* may stay in front of the board at y, y+1
BoardsInOrder(pl_, pair_, y) ==
  LET a2 == PlAt(pl_, pair_, y - 2)
      a1 == PlAt(pl_, pair_, y - 1)
      b0 == PlAt(pl_, pair_, y)
      b1 == PlAt(pl_, pair_, y + 1)
  IN  \/ B2N(a2.paired) < B2N(b0.paired)
      \/ /\ a2.paired = b0.paired
         /\ \/ B2N(IsBye(a1)) < B2N(IsBye(b1))
            \/ /\ IsBye(a1) = IsBye(b1)
               /\ \/ B2N(a2.bye_request) < B2N(b0.bye_request)
                  \/ /\ a2.bye_request = b0.bye_request
                     /\ \/ a2.score > b0.score
                        \/ /\ a2.score = b0.score
                           /\ \/ a1.score > b1.score
                              \/ /\ a1.score = b1.score
                                 /\ \/ a2.rating > b0.rating
                                    \/ /\ a2.rating = b0.rating
                                       /\ \/ a1.rating > b1.rating
                                          \/ /\ a1.rating = b1.rating
                                             /\ PlayerLe(a2, b0)

\* the inner loop of SortBoards: for (y = x; y > 0; y -= 2)
RECURSIVE SortBoardsInner(_, _, _)
SortBoardsInner(pl_, pair_, y) ==
  IF y <= 0 \/ BoardsInOrder(pl_, pair_, y) THEN pair_
  ELSE SortBoardsInner(pl_, Swap(Swap(pair_, y, y - 2), y + 1, y - 1), y - 2)

RECURSIVE SortBoardsFrom(_, _, _)
SortBoardsFrom(pl_, pair_, x) ==
  IF x >= Len(pair_) THEN pair_
  ELSE SortBoardsFrom(pl_, SortBoardsInner(pl_, pair_, x), x + 2)

\* void SortBoards (const PlayerVector &pl, IndexVector &pair): insertion
\* sort to put players on correct boards
SortBoards(pl_, pair_) == SortBoardsFrom(pl_, pair_, 0)

\* "if (pl[pair[x]].rank > pl[pair[x+1]].rank) swap" on every board
RankOrdered(pl_, pair_) ==
  [k \in 1..Len(pair_) |->
     LET x == ((k - 1) \div 2) * 2
         lo == At(pair_, x)
         hi == At(pair_, x + 1)
         swap == At(pl_, lo).rank > At(pl_, hi).rank
     IN  IF (k - 1) % 2 = 0 THEN (IF swap THEN hi ELSE lo)
         ELSE (IF swap THEN lo ELSE hi)]

\* the multimap m of HintPairings as the vector of its values: the players
\* with a hint, by board_num and, within a board, by index
HintMap(pl_) ==
  LET hinted == {x \in 0..(Len(pl_) - 2) : At(pl_, x).board_num # -1}
      Before(a, b) == \/ At(pl_, a).board_num < At(pl_, b).board_num
                      \/ At(pl_, a).board_num = At(pl_, b).board_num /\ a < b
  IN  [k \in 1..Cardinality(hinted) |->
         CHOOSE x \in hinted : Cardinality({w \in hinted : Before(w, x)}) = k - 1]

\* the loop of HintPairings over m from its k-th element: the three vectors
\* pair (preserved pairings), single (orphans) and other (non-paired players)
RECURSIVE HintLoop(_, _, _, _, _)
HintLoop(pl_, m, k, collapseByes, acc) ==
  IF k > Len(m) THEN acc
  ELSE
    LET p1 == At(pl_, m[k])
        byeIndex == Len(pl_) - 1
        alone == IF p1.paired \/ p1.bye_request \/ ~collapseByes
                   THEN [acc EXCEPT !.other = @ \o <<p1.rank, byeIndex>>]
                   ELSE [acc EXCEPT !.single = @ \o <<p1.rank>>]
    IN  IF k = Len(m) THEN HintLoop(pl_, m, k + 1, collapseByes, alone)
        ELSE
          LET p2 == At(pl_, m[k + 1])
          IN  IF \/ p2.board_num # p1.board_num
                 \/ p2.paired # p1.paired
                 \/ (~p1.paired /\ (p1.bye_request \/ p2.bye_request))
                THEN HintLoop(pl_, m, k + 1, collapseByes, alone)
                ELSE HintLoop(pl_, m, k + 2, collapseByes,
                       IF p1.paired
                         THEN [acc EXCEPT !.other = @ \o <<p1.rank, p2.rank>>]
                         ELSE [acc EXCEPT !.pair = @ \o <<p1.rank, p2.rank>>])

\* void HintPairings (const PlayerVector &pl, IndexVector &pair, bool
\* collapseByes): the initial position the hint gives
HintPairings(pl_, collapseByes) ==
  LET v == HintLoop(pl_, HintMap(pl_), 1, collapseByes,
                    [pair |-> <<>>, single |-> <<>>, other |-> <<>>])
      byeIndex == Len(pl_) - 1
      packed == v.pair \o v.single
      merged == (IF Len(packed) % 2 # 0 THEN packed \o <<byeIndex>> ELSE packed)
                \o v.other
  IN  SortBoards(pl_, RankOrdered(pl_, merged))

\* the end of the score group of FirstPairings that starts at x: the first
\* y > x with y >= players or another score
RECURSIVE GroupEnd(_, _, _, _)
GroupEnd(pl_, x, y, players_) ==
  IF y >= players_ \/ At(pl_, y).score # At(pl_, x).score THEN y
  ELSE GroupEnd(pl_, x, y + 1, players_)

\* the outer loop of FirstPairings from x: upper half against lower half in
\* each score group, the odd player dropped down or given the bye
RECURSIVE FirstLoop(_, _, _, _)
FirstLoop(pl_, pair_, x, players_) ==
  IF x >= players_ THEN pair_
  ELSE
    LET y == GroupEnd(pl_, x, x + 1, players_)
        num == y - x
        boards == [k \in 1..Len(pair_) |->
                     LET w == (k - 1) - x
                     IN  IF w >= 0 /\ w < (num \div 2) * 2
                           THEN (IF w % 2 = 0 THEN x + w \div 2
                                 ELSE x + num \div 2 + w \div 2)
                           ELSE pair_[k]]
    IN  IF num % 2 = 0 THEN FirstLoop(pl_, boards, y, players_)
        ELSE IF y < players_
          THEN FirstLoop(pl_, Put(Put(boards, y - 1, y - 1), y, y), y + 1, players_)
        ELSE FirstLoop(pl_, Put(boards, y - 1, y - 1), y, players_)

\* the first players entries of pair in the order of the ranks, neighbours
\* paired
FirstPairingsAdjacent(pl_, pair_, players_) ==
  [k \in 1..Len(pair_) |-> IF k <= players_ THEN k - 1 ELSE pair_[k]]

\* void FirstPairings (pl, pair, players, totalRounds): sort the first
\* players entries of pair, then pair each score group; ColorLookahead
\* changes nothing
FirstPairings(pl_, pair_, players_) ==
  LET head == Sorted(SubSeq(pair_, 1, players_))
      sorted == head \o SubSeq(pair_, players_ + 1, Len(pair_))
  IN  FirstLoop(pl_, sorted, 0, players_)

----------------------------------------------------------------------------
(* The optimiser's moves *)

\* shift[z] as 0 or 1 (a BoolVector)
Sh(shift, z) == IF z + 1 \in DOMAIN shift /\ shift[z + 1] THEN 1 ELSE 0

\* for (z = from; z+2 <= to; z += 2) swap(pair[z+shift[z]], pair[z+2+shift[z+2]])
RECURSIVE SwapDownward(_, _, _, _)
SwapDownward(pair_, z, to, shift) ==
  IF z + 2 > to THEN pair_
  ELSE SwapDownward(Swap(pair_, z + Sh(shift, z), z + 2 + Sh(shift, z + 2)),
                    z + 2, to, shift)

\* for (z = from; z >= to; z -= 2) swap(pair[z+shift[z]], pair[z-2+shift[z-2]])
RECURSIVE SwapUpward(_, _, _, _)
SwapUpward(pair_, z, to, shift) ==
  IF z < to THEN pair_
  ELSE SwapUpward(Swap(pair_, z + Sh(shift, z), z - 2 + Sh(shift, z - 2)),
                  z - 2, to, shift)

\* void RotatePairDown (pair, x, y, pBegin, pEnd, oddDropDown, oddPullUp, shift)
RotatePairDown(pair0, x0, y0, pBegin0, pEnd0, oddDropDown, oddPullUp, shift) ==
  LET y == IF oddDropDown THEN y0 - 1 ELSE y0
      pEnd == IF oddDropDown THEN pEnd0 - 2 ELSE pEnd0
      x == IF oddPullUp THEN x0 + 1 ELSE x0
      pBegin == IF oddPullUp THEN pBegin0 + 2 ELSE pBegin0
      pair1 == IF oddPullUp THEN Swap(pair0, x - 1, x) ELSE pair0
      pair2 ==
        IF x % 2 = 0
          THEN (IF y % 2 = 0 THEN SwapDownward(pair1, x, y, shift)
                ELSE SwapDownward(
                       Swap(SwapDownward(pair1, x, pEnd - 1, shift),
                            pEnd - 2, pBegin + 1),
                       pBegin + 1, y, shift))
          ELSE (IF y % 2 = 0
                  THEN SwapDownward(
                         Swap(SwapDownward(pair1, y, pEnd - 1, shift),
                              pEnd - 2, pBegin + 1),
                         pBegin + 1, x, shift)
                  ELSE SwapDownward(pair1, x, y, shift))
  IN  IF oddDropDown THEN Swap(pair2, y, y + 1) ELSE pair2

\* void RotatePairUp (pair, x, y, pBegin, pEnd, oddDropDown, oddPullUp, shift)
RotatePairUp(pair0, x0, y0, pBegin0, pEnd0, oddDropDown, oddPullUp, shift) ==
  LET y == IF oddDropDown THEN y0 - 1 ELSE y0
      pEnd == IF oddDropDown THEN pEnd0 - 2 ELSE pEnd0
      pair1 == IF oddDropDown THEN Swap(pair0, y + 1, y) ELSE pair0
      x == IF oddPullUp THEN x0 + 1 ELSE x0
      pBegin == IF oddPullUp THEN pBegin0 + 2 ELSE pBegin0
      pair2 ==
        IF x % 2 = 0
          THEN (IF y % 2 = 0 THEN SwapUpward(pair1, y, x + 2, shift)
                ELSE SwapUpward(
                       Swap(SwapUpward(pair1, y, pBegin + 2, shift),
                            pBegin + 1, pEnd - 2),
                       pEnd - 2, x + 2, shift))
          ELSE (IF y % 2 = 0
                  THEN SwapUpward(
                         Swap(SwapUpward(pair1, x, pBegin + 2, shift),
                              pBegin + 1, pEnd - 2),
                         pEnd - 2, y + 2, shift)
                  ELSE SwapUpward(pair1, y, x + 2, shift))
  IN  IF oddPullUp THEN Swap(pair2, x, x - 1) ELSE pair2

\* OPP(v) of RotateColor: the position of the opponent of position v
OppPos(v) == IF v % 2 = 0 THEN v + 1 ELSE v - 1

\* COLOR(v) of RotateColor
RotColor(pl_, pair_, v, isFlipX) ==
  LET dv == PlAt(pl_, pair_, v).due_color[1]
      dop == PlAt(pl_, pair_, OppPos(v)).due_color[1]
  IN  ToUpper(IF dv # "x" THEN dv
              ELSE IF dop = "x" THEN (IF v % 2 = 0 THEN "W" ELSE "B")
              ELSE IF isFlipX THEN dop
              ELSE FlipColor(dop))

\* "for (top = x/2*2+2; top < y/2*2 && COLOR(top) == xColor; top += 2)"
RECURSIVE RotTop(_, _, _, _, _, _)
RotTop(pl_, pair_, top, y, xColor, isFlipX) ==
  IF top < (y \div 2) * 2 /\ RotColor(pl_, pair_, top, isFlipX) = xColor
    THEN RotTop(pl_, pair_, top + 2, y, xColor, isFlipX)
    ELSE top

\* "for (z = top; ; z -= 2)": carry x down to the board after top
RECURSIVE RotCarryX(_, _, _)
RotCarryX(pair_, z, x) ==
  IF z = x \/ z + 1 = x THEN Swap(pair_, x, z + 2)
  ELSE RotCarryX(Swap(pair_, z, z + 2), z - 2, x)

\* "for (z = w + 2; z < y; z += 2) if (COLOR(z) == yColor) ...": the pair
\* vector and w after the loop
RECURSIVE RotDownY(_, _, _, _, _, _, _)
RotDownY(pl_, pair_, w, z, y, yColor, isFlipX) ==
  IF z >= y THEN [pair |-> pair_, w |-> w]
  ELSE IF RotColor(pl_, pair_, z, isFlipX) = yColor
    THEN RotDownY(pl_, Swap(pair_, w, z), z, z + 2, y, yColor, isFlipX)
  ELSE RotDownY(pl_, pair_, w, z + 2, y, yColor, isFlipX)

\* "for (z = w + 1; z > top+2; z -= 2) if (COLOR(z-2) == xColor) ..."
RECURSIVE RotUpX(_, _, _, _, _, _, _)
RotUpX(pl_, pair_, w, z, top, xColor, isFlipX) ==
  IF z <= top + 2 THEN pair_
  ELSE IF RotColor(pl_, pair_, z - 2, isFlipX) = xColor
    THEN RotUpX(pl_, Swap(pair_, w, z - 2), z - 2, z - 2, top, xColor, isFlipX)
  ELSE RotUpX(pl_, pair_, w, z - 2, top, xColor, isFlipX)

\* "for (z = top; z >= x+4; z -= 2) swap(pair[z], pair[z-2])"
RECURSIVE RotShift(_, _, _)
RotShift(pair_, z, x) ==
  IF z < x + 4 THEN pair_ ELSE RotShift(Swap(pair_, z, z - 2), z - 2, x)

\* the end of RotateColor where y moves up: swap(pair[w], pair[y]) and the
\* loop that moves x's colour up; down is what the loop over z left
RotateUp(pl_, down, y, top, xColor, isFlipX) ==
  RotUpX(pl_, Swap(down.pair, down.w, y), y, y + 1, top, xColor, isFlipX)

\* RotateColor after its early returns and the search for top: the loops
\* that move x down to the board after top0 and y up to it
RotateMoves(pl_, pair_, x, y, oddDropDown, xColor, yColor, isFlipX, moveX, top0, top, pair1) ==
  IF oddDropDown \/ y % 2 = 0
    THEN RotateUp(pl_, RotDownY(pl_, pair1, top, top + 2, y, yColor, isFlipX),
                  y, top, xColor, isFlipX)
    ELSE Swap(RotShift(pair1, top, x), top, y)

\* RotateColor from "bool isFlipX": unchanged is pair as it came, top0 the
\* board the search for top stopped at
RotateFrom(pl_, pair_, x, y, oddDropDown, px, py, xColor, yColor, isFlipX, moveX, top0) ==
  IF x \div 2 + 1 >= y \div 2 THEN [isChanged |-> FALSE, pair |-> pair_]
  ELSE IF px.score # py.score THEN [isChanged |-> FALSE, pair |-> pair_]
  ELSE IF xColor = yColor THEN [isChanged |-> FALSE, pair |-> pair_]
  ELSE IF moveX /\ top0 >= (y \div 2) * 2 THEN [isChanged |-> FALSE, pair |-> pair_]
  ELSE [isChanged |-> TRUE,
        pair |-> RotateMoves(pl_, pair_, x, y, oddDropDown, xColor, yColor, isFlipX,
                             moveX, top0, IF moveX THEN top0 + 1 ELSE x,
                             IF moveX THEN RotCarryX(pair_, top0, x) ELSE pair_)]

\* RotateColor with the colours its two players are due
RotateDue(pl_, pair_, x, y, oddDropDown, oddPullUp, px, py, xColor, yColor) ==
  RotateFrom(pl_, pair_, x, y, oddDropDown, px, py, xColor, yColor,
             xColor = ToUpper(px.due_color[1]) /\ yColor = ToUpper(py.due_color[1]),
             oddPullUp \/ x % 2 = 0,
             RotTop(pl_, pair_, (x \div 2) * 2 + 2, y, xColor,
                    xColor = ToUpper(px.due_color[1])
                      /\ yColor = ToUpper(py.due_color[1])))

\* bool RotateColor (pl, pair, x, y, pBegin, pEnd, oddDropDown, oddPullUp):
\* isChanged and the pair vector it leaves
RotateColor(pl_, pair_, x, y, pBegin, pEnd, oddDropDown, oddPullUp) ==
  RotateDue(pl_, pair_, x, y, oddDropDown, oddPullUp,
            PlAt(pl_, pair_, x), PlAt(pl_, pair_, y),
            ToUpper(IF PlAt(pl_, pair_, x).due_color[1] = "x"
                      THEN FlipColor(PlAt(pl_, pair_, y).due_color[1])
                      ELSE PlAt(pl_, pair_, x).due_color[1]),
            ToUpper(IF PlAt(pl_, pair_, y).due_color[1] = "x"
                      THEN FlipColor(PlAt(pl_, pair_, x).due_color[1])
                      ELSE PlAt(pl_, pair_, y).due_color[1]))

----------------------------------------------------------------------------
(* MinimizePairingCost.  o is the record of its locals (see OptEnter).     *)

\* IndexVector(2*d, pBegin)
AllBegin(d, pBegin) == [k \in 1..(2 * d) |-> pBegin]

\* "for (j = 0; j < i.size() && (++i[j] >= pEnd || bye); ++j) i[j] = pBegin"
RECURSIVE Advance(_, _, _, _)
Advance(pl_, o, i, j) ==
  IF j >= Len(i) THEN i
  ELSE LET v == At(i, j) + 1
       IN  IF v >= o.pEnd \/ IsBye(PlAt(pl_, o.bestPair, v))
             THEN Advance(pl_, o, Put(i, j, o.pBegin), j + 1)
             ELSE Put(i, j, v)

\* the two tests that send a tuple back to nextI: don't do things twice,
\* and (isCostSearch) search only on players that cause cost
TupleOk(o, i) ==
  \A j \in {j \in 0..(Len(i) - 1) : j % 2 = 0} :
    /\ ~ \/ (j > 0 /\ (IF o.d <= 1 THEN At(i, j) <= At(i, j - 2)
                       ELSE At(i, j) < At(i, j - 2)))
         \/ (IF o.d <= 1 THEN At(i, j + 1) <= At(i, j)
             ELSE At(i, j + 1) < At(i, j))
    /\ ~ (/\ At(o.bestPair, At(i, j)) \notin o.bestCostPlayers
          /\ At(o.bestPair, At(i, j + 1)) \notin o.bestCostPlayers)

\* the next tuple the search tries after i; AllBegin when it wraps around
RECURSIVE NextI(_, _, _)
NextI(pl_, o, i) ==
  LET a == Advance(pl_, o, i, 0)
  IN  IF a = AllBegin(o.d, o.pBegin) THEN a
      ELSE IF TupleOk(o, a) THEN a
      ELSE NextI(pl_, o, a)

\* size_t maxChange
MaxChange(i) ==
  LET gaps == {At(i, j + 1) - At(i, j) : j \in {j \in 0..(Len(i) - 1) : j % 2 = 0}}
  IN  CHOOSE g \in gaps : \A h \in gaps : g >= h

\* how many values of s the tuple is tried with
NumS(i) == IF MaxChange(i) <= 2 THEN 1 ELSE 8

RECURSIVE ScoreBegin(_, _, _, _, _)
ScoreBegin(pl_, testPair, sBegin, pBegin, score) ==
  IF /\ sBegin > pBegin
     /\ PlAt(pl_, testPair, sBegin - 2).score = score
     /\ PlAt(pl_, testPair, sBegin - 1).score = score
    THEN ScoreBegin(pl_, testPair, sBegin - 2, pBegin, score)
    ELSE sBegin

RECURSIVE ScoreEnd(_, _, _, _, _)
ScoreEnd(pl_, testPair, sEnd, pEnd2, score) ==
  IF /\ sEnd < pEnd2
     /\ PlAt(pl_, testPair, sEnd).score = score
     /\ PlAt(pl_, testPair, sEnd + 1).score = score
    THEN ScoreEnd(pl_, testPair, sEnd + 2, pEnd2, score)
    ELSE sEnd

\* BoolVector shift of the moves s = 6, 7: the boards whose colours differ
\* from those of the first board
ShiftOf(pl_, testPair, pBegin, pEnd2) ==
  LET startColor == AllocateColor(PlAt(pl_, testPair, pBegin),
                                  PlAt(pl_, testPair, OppPos(pBegin)),
                                  (pBegin \div 2) % 2 = 0)
  IN  [k \in 1..pEnd2 |->
         LET c == k - 1
         IN  /\ c % 2 = 0
             /\ c >= (pBegin \div 2) * 2 + 2
             /\ startColor # AllocateColor(PlAt(pl_, testPair, c),
                                           PlAt(pl_, testPair, c + 1),
                                           (c \div 2) % 2 = 0)]

\* what the move s gives when the move is RotateColor (s = 5)
FromColor(rc, testPair) ==
  IF rc.isChanged THEN [ok |-> TRUE, pair |-> rc.pair]
  ELSE [ok |-> FALSE, pair |-> testPair]

\* the switch over s (lines 2148-2193) with the score group of a found:
\* s = 0 swap, 1/2 rotate over the whole section, 3/4 rotate within the
\* score group, 5 rotate colours, 6/7 rotate over the boards of shift
MoveSwitch(pl_, o, testPair, a, b, s, hasBye2, pEnd2, score, sBegin, sEnd, oddDropDown, oddPullUp) ==
  IF a >= b THEN [ok |-> TRUE, pair |-> testPair]
  ELSE IF s = 0 THEN [ok |-> TRUE, pair |-> Swap(testPair, a, b)]
  ELSE IF s \in {3, 4, 5} /\ PlAt(pl_, testPair, b).score # score
    THEN [ok |-> FALSE, pair |-> testPair]
  ELSE IF s = 5
    THEN FromColor(RotateColor(pl_, testPair, a, b, sBegin, sEnd, oddDropDown,
                               oddPullUp), testPair)
  ELSE IF s \in {1, 3, 6}
    THEN [ok |-> TRUE,
          pair |-> RotatePairDown(testPair, a, b,
                     IF s = 3 THEN sBegin ELSE o.pBegin,
                     IF s = 3 THEN sEnd ELSE pEnd2,
                     IF s = 3 THEN oddDropDown ELSE hasBye2,
                     IF s = 3 THEN oddPullUp ELSE FALSE,
                     IF s = 6 THEN ShiftOf(pl_, testPair, o.pBegin, pEnd2)
                     ELSE [k \in 1..o.pEnd |-> FALSE])]
  ELSE [ok |-> TRUE,
        pair |-> RotatePairUp(testPair, a, b,
                   IF s = 4 THEN sBegin ELSE o.pBegin,
                   IF s = 4 THEN sEnd ELSE pEnd2,
                   IF s = 4 THEN oddDropDown ELSE hasBye2,
                   IF s = 4 THEN oddPullUp ELSE FALSE,
                   IF s = 7 THEN ShiftOf(pl_, testPair, o.pBegin, pEnd2)
                   ELSE [k \in 1..o.pEnd |-> FALSE])]

\* the score group of a (sBegin, sEnd) found: is a the odd player pulled
\* up, is b the one dropped down?
MoveGroup(pl_, o, testPair, a, b, s, hasBye2, pEnd2, score, sBegin, sEnd) ==
  MoveSwitch(pl_, o, testPair, a, b, s, hasBye2, pEnd2, score, sBegin, sEnd,
    /\ b = sEnd - 2
    /\ \/ PlAt(pl_, testPair, sEnd - 1).score < score
       \/ IsBye(PlAt(pl_, testPair, sEnd - 1)),
    a = sBegin + 1 /\ PlAt(pl_, testPair, sBegin).score > score)

\* lines 2127-2147: hasBye2, pEnd2 and the score group of a
MoveBounds(pl_, o, testPair, a, b, s, hasBye2, pEnd2, score) ==
  MoveGroup(pl_, o, testPair, a, b, s, hasBye2, pEnd2, score,
            ScoreBegin(pl_, testPair, (a \div 2) * 2, o.pBegin, score),
            ScoreEnd(pl_, testPair, (b \div 2) * 2 + 2, pEnd2, score))

\* one round of the loop over j that builds testPair: move s applied to the
\* positions a = i[j] and b = i[j+1]; ok is FALSE where the code leaves for
\* nextS
MoveOne(pl_, o, testPair, a, b, s) ==
  MoveBounds(pl_, o, testPair, a, b, s,
             o.hasBye /\ (a >= o.pEnd - 2 \/ b >= o.pEnd - 2),
             IF o.hasBye /\ ~(a >= o.pEnd - 2 \/ b >= o.pEnd - 2)
               THEN o.pEnd - 2 ELSE o.pEnd,
             PlAt(pl_, testPair, a).score)

\* the loop over j = 0, 2, ... that builds testPair from bestPair
RECURSIVE Moves(_, _, _, _, _, _)
Moves(pl_, o, testPair, i, j, s) ==
  IF j >= Len(i) THEN [ok |-> TRUE, pair |-> testPair]
  ELSE LET m == MoveOne(pl_, o, testPair, At(i, j), At(i, j + 1), s)
       IN  IF m.ok THEN Moves(pl_, o, m.pair, i, j + 2, s) ELSE m

\* the moved testPair with the ranks of a board left as the move put them
InRankOrderKept(testPair) == testPair

\* "don't put ranks out of order": if (testPair[y] >= testPair[y+1]) swap
InRankOrder(testPair) ==
  [k \in 1..Len(testPair) |->
     LET x == ((k - 1) \div 2) * 2
         lo == At(testPair, x)
         hi == At(testPair, x + 1)
     IN  IF (k - 1) % 2 = 0 THEN Min(lo, hi) ELSE Max(lo, hi)]

\* lines 2198-2213: the moved testPair put in rank order on every board, and
\* the boards sorted; a skipped move (m.ok FALSE) stays as it is
Ordered(pl_, m) ==
  IF m.ok THEN [ok |-> TRUE, pair |-> SortBoards(pl_, InRankOrder(m.pair))]
  ELSE m

\* the candidate the search tries for tuple i and move s: testPair as it is
\* handed to CostFunction; ok is FALSE where the move is skipped
Candidate(pl_, o, i, s) == Ordered(pl_, Moves(pl_, o, o.bestPair, i, 0, s))

----------------------------------------------------------------------------
(* FindPairings: canonical form, and setting boards and colours *)

\* who wants a pairing: the loop "request bye for one odd house player"
WantsPairing(p) == ~p.bye_request /\ ~p.paired /\ ~IsBye(p)

\* int housePlayer, as a position of pl (0-based); -1 if none
HousePlayer(pl_) ==
  LET wanting == {x \in 0..(Len(pl_) - 1) : WantsPairing(At(pl_, x))}
      house == {x \in wanting : At(pl_, x).bye_house}
  IN  IF Cardinality(wanting) % 2 = 0 \/ house = {} THEN -1
      ELSE CHOOSE x \in house : \A w \in house : x >= w

\* size_t players of FindPairings
Players(pl_) ==
  Cardinality({x \in 0..(Len(pl_) - 1) : WantsPairing(At(pl_, x))})
  - (IF HousePlayer(pl_) >= 0 THEN 1 ELSE 0)

\* pl[housePlayer].bye_request = true
WithHouseBye(pl_) ==
  IF HousePlayer(pl_) >= 0
    THEN [pl_ EXCEPT ![HousePlayer(pl_) + 1].bye_request = TRUE]
    ELSE pl_

\* what rankMap.find(play_id) gives: the rank of the first player inserted
\* with that play_id, if any
RankOf(pl_, id) ==
  LET have == {x \in 0..(Len(pl_) - 1) : At(pl_, x).play_id = id}
  IN  IF have = {} THEN <<>> ELSE <<CHOOSE x \in have : \A w \in have : x <= w>>

RECURSIVE RanksOf(_, _)
RanksOf(pl_, ids) ==
  IF ids = <<>> THEN <<>> ELSE RankOf(pl_, Head(ids)) \o RanksOf(pl_, Tail(ids))

\* void SetRanks (PlayerVector &pl)
SetRanks(pl_) ==
  [k \in 1..Len(pl_) |->
     [pl_[k] EXCEPT
        !.rank = k - 1,
        !.due_color = DueColor(pl_[k].color_history, pl_[k].multiround),
        !.opponent_ranks =
           RanksOf(pl_, [z \in DOMAIN pl_[k].opponents |-> pl_[k].opponents[z][1]]),
        !.teammate_ranks = RanksOf(pl_, pl_[k].teammates)]]

\* void CanonicalPlayerVector (PlayerVector &pl): the sentinel appended
\* unless it is there already, sort(pl.begin(), pl.end()), SetRanks
CanonicalPlayerVector(pl_) ==
  LET withBye == IF Len(pl_) <= 0 THEN <<ByePlayer(0, 0)>>
                 ELSE IF ~IsBye(pl_[Len(pl_)])
                   THEN Append(pl_, ByePlayer(pl_[1].rnd, pl_[1].multiround))
                 ELSE pl_
  IN  SetRanks(SortSeq(withBye, PlayerLess))

\* integer lowBoard, and the firstBoardNum the boards are numbered from
FirstBoardNum(pl_, firstBoardNum) ==
  LET nums == {pl_[k].board_num : k \in {k \in DOMAIN pl_ : ~IsBye(pl_[k])}}
  IN  IF firstBoardNum # 0 THEN firstBoardNum
      ELSE CHOOSE m \in nums : \A q \in nums : m <= q

\* the test that ends the inner loop of "first sort by rank (putting byes
\* last)"
FinalInOrder(pl_, pair_, y) ==
  LET z1 == IF PlayerLess(PlAt(pl_, pair_, y - 2), PlAt(pl_, pair_, y - 1))
              THEN y - 2 ELSE y - 1
      z2 == IF PlayerLess(PlAt(pl_, pair_, y), PlAt(pl_, pair_, y + 1))
              THEN y ELSE y + 1
      b1 == IsBye(PlAt(pl_, pair_, y - 2)) \/ IsBye(PlAt(pl_, pair_, y - 1))
      b2 == IsBye(PlAt(pl_, pair_, y)) \/ IsBye(PlAt(pl_, pair_, y + 1))
  IN  \/ B2N(b1) < B2N(b2)
      \/ b1 = b2 /\ PlayerLess(PlAt(pl_, pair_, z1), PlAt(pl_, pair_, z2))

RECURSIVE FinalSortInner(_, _, _)
FinalSortInner(pl_, pair_, y) ==
  IF y <= 0 \/ FinalInOrder(pl_, pair_, y) THEN pair_
  ELSE FinalSortInner(pl_, Swap(Swap(pair_, y, y - 2), y + 1, y - 1), y - 2)

RECURSIVE FinalSortFrom(_, _, _)
FinalSortFrom(pl_, pair_, x) ==
  IF x >= Len(pair_) THEN pair_
  ELSE FinalSortFrom(pl_, FinalSortInner(pl_, pair_, x), x + 2)

\* "first sort by rank (putting byes last)"
FinalSort(pl_, pair_) == FinalSortFrom(pl_, pair_, 2)

\* the boards set with the colour AllocateColor gives the second of a board
\* for both of them
SetBoardsNoFlip(pl_, pair_, firstBoardNum) ==
  [k \in 1..Len(pl_) |->
     LET at == {p \in 0..(Len(pair_) - 1) : At(pair_, p) = k - 1}
         p == CHOOSE p \in at : \A q \in at : p >= q
         x == (p \div 2) * 2
         lower == AllocateColor(PlAt(pl_, pair_, x + 1), PlAt(pl_, pair_, x),
                                (x \div 2) % 2 = 0)
         set == IF at = {} THEN pl_[k]
                ELSE [pl_[k] EXCEPT
                        !.board_num = firstBoardNum + x \div 2,
                        !.board_color = lower]
     IN  IF k = Len(pl_) THEN [set EXCEPT !.board_num = -1] ELSE set]

\* "set boards": board_num and board_color of everybody on a board (a later
\* board overwrites an earlier one), then the sentinel's board_num = -1
SetBoards(pl_, pair_, firstBoardNum) ==
  [k \in 1..Len(pl_) |->
     LET at == {p \in 0..(Len(pair_) - 1) : At(pair_, p) = k - 1}
         p == CHOOSE p \in at : \A q \in at : p >= q
         x == (p \div 2) * 2
         lower == AllocateColor(PlAt(pl_, pair_, x + 1), PlAt(pl_, pair_, x),
                                (x \div 2) % 2 = 0)
         set == IF at = {} THEN pl_[k]
                ELSE [pl_[k] EXCEPT
                        !.board_num = firstBoardNum + x \div 2,
                        !.board_color = IF p = x THEN FlipColor(lower) ELSE lower]
     IN  IF k = Len(pl_) THEN [set EXCEPT !.board_num = -1] ELSE set]

----------------------------------------------------------------------------
(* The search of MinimizePairingCost as steps *)

\* the largest indeterminate value the model lets Transpose's cv start with
MaxUninit == 1

\* what the reads of the uninitialised cv can give in a build: the folded
\* result, or any stack value
Uninits(fold) ==
  IF fold THEN {[fold |-> TRUE, cv |-> 0]}
  ELSE {[fold |-> FALSE, cv |-> g] : g \in 0..MaxUninit}

\* the search let loose on every board of pair_, those given by hand too
OptEnterWhole(pl_, pair_, remainingRounds, depth, pBegin, pEndConst, usePairableCost, accepted, uninit) ==
  LET cf == CostFunction(pl_, pair_, remainingRounds, pBegin, Len(pair_), FALSE,
                         usePairableCost, uninit)
  IN  [ remainingRounds |-> remainingRounds, depth |-> depth,
        pBegin |-> pBegin, pEnd |-> Len(pair_), hasBye |-> pEndConst % 2 # 0,
        usePairableCost |-> usePairableCost,
        bestPair |-> pair_, bestCost |-> cf.c, bestCostPlayers |-> cf.costPlayers,
        d |-> 1, i |-> AllBegin(1, pBegin), s |-> 0, isFoundBetter |-> FALSE,
        searching |-> FALSE, accepted |-> accepted ]

\* the locals of MinimizePairingCost after "Cost bestCost = CostFunction(...)"
\* (lines 2067-2081); accepted is the cost of the last accepted move of this
\* call of FindPairings, if any
OptEnter(pl_, pair_, remainingRounds, depth, pBegin, pEndConst, usePairableCost, accepted, uninit) ==
  LET hasBye == pEndConst % 2 # 0
      pEnd == IF hasBye /\ pEndConst < Len(pair_) /\ IsBye(PlAt(pl_, pair_, pEndConst))
                THEN pEndConst + 1 ELSE pEndConst
      cf == CostFunction(pl_, pair_, remainingRounds, pBegin, pEnd, FALSE,
                         usePairableCost, uninit)
  IN  [ remainingRounds |-> remainingRounds, depth |-> depth,
        pBegin |-> pBegin, pEnd |-> pEnd, hasBye |-> hasBye,
        usePairableCost |-> usePairableCost,
        bestPair |-> pair_, bestCost |-> cf.c, bestCostPlayers |-> cf.costPlayers,
        d |-> 1, i |-> AllBegin(1, pBegin), s |-> 0, isFoundBetter |-> FALSE,
        searching |-> FALSE, accepted |-> accepted ]

\* the search sent back to depth 1 by every improvement
RECURSIVE SeekFromOne(_, _)
SeekFromOne(pl_, o) ==
  LET next == NextI(pl_, o, o.i)
      d2 == IF o.isFoundBetter THEN 1 ELSE o.d + 1
  IN  IF ~IsZero(o.bestCost) /\ next # AllBegin(o.d, o.pBegin)
        THEN [o EXCEPT !.i = next, !.s = 0, !.searching = TRUE]
      ELSE IF o.pBegin < o.pEnd /\ d2 <= o.depth
        THEN SeekFromOne(pl_, [o EXCEPT !.d = d2, !.i = AllBegin(d2, o.pBegin),
                                        !.isFoundBetter = FALSE])
      ELSE [o EXCEPT !.searching = FALSE]

\* from the test of "while (!bestCost.IsZero())" to the next tuple that is
\* tried: the tuple after i at this d, or, when the while loop ends, the
\* first tuple of the next pass of "for (d = 1; pBegin < pEnd && d <= depth;
\* ++d)" (the same d again after "--d" if something better was found);
\* searching is FALSE when the for loop has ended
RECURSIVE Seek(_, _)
Seek(pl_, o) ==
  LET next == NextI(pl_, o, o.i)
      d2 == IF o.isFoundBetter THEN o.d ELSE o.d + 1
  IN  IF ~IsZero(o.bestCost) /\ next # AllBegin(o.d, o.pBegin)
        THEN [o EXCEPT !.i = next, !.s = 0, !.searching = TRUE]
      ELSE IF o.pBegin < o.pEnd /\ d2 <= o.depth
        THEN Seek(pl_, [o EXCEPT !.d = d2, !.i = AllBegin(d2, o.pBegin),
                                 !.isFoundBetter = FALSE])
      ELSE [o EXCEPT !.searching = FALSE]

\* the for loop entered: its first tuple, if any
SeekFirst(pl_, o) ==
  IF o.pBegin < o.pEnd /\ 1 <= o.depth THEN Seek(pl_, o)
  ELSE [o EXCEPT !.searching = FALSE]

\* a candidate taken as the best unless it costs more
AcceptNotWorse(o, cand, cf) ==
  IF cand.ok /\ ~CostLess(o.bestCost, cf.c)
    THEN [o EXCEPT !.bestPair = cand.pair, !.bestCost = cf.c,
                   !.bestCostPlayers = cf.costPlayers,
                   !.isFoundBetter = TRUE, !.accepted = <<cf.c>>,
                   !.s = @ + 1]
    ELSE [o EXCEPT !.s = @ + 1]

\* every candidate taken as the best, whatever it costs
AcceptAny(o, cand, cf) ==
  IF cand.ok
    THEN [o EXCEPT !.bestPair = cand.pair, !.bestCost = cf.c,
                   !.bestCostPlayers = cf.costPlayers,
                   !.isFoundBetter = TRUE, !.accepted = <<cf.c>>,
                   !.s = @ + 1]
    ELSE [o EXCEPT !.s = @ + 1]

\* lines 2217-2228: "if (testCost < bestCost)" the candidate is taken as the
\* best; then ++s.  cf is what CostFunction gave for the candidate
Accept(o, cand, cf) ==
  IF cand.ok /\ CostLess(cf.c, o.bestCost)
    THEN [o EXCEPT !.bestPair = cand.pair, !.bestCost = cf.c,
                   !.bestCostPlayers = cf.costPlayers,
                   !.isFoundBetter = TRUE, !.accepted = <<cf.c>>,
                   !.s = @ + 1]
    ELSE [o EXCEPT !.s = @ + 1]

\* lines 2213-2216: the candidate costed, without doCodes
Costed(pl_, o, cand, uninit) ==
  Accept(o, cand,
         CostFunction(pl_, cand.pair, o.remainingRounds, o.pBegin, o.pEnd,
                      FALSE, o.usePairableCost, uninit))

\* one round of "for (s = 0; ...)": the candidate for (o.i, o.s) is built,
\* costed and, if "testCost < bestCost", taken as the best
Tried(pl_, o, uninit) == Costed(pl_, o, Candidate(pl_, o, o.i, o.s), uninit)

\* after the last s of a tuple the search goes on to the next tuple
AfterTry(pl_, o) == IF o.s < NumS(o.i) THEN o ELSE Seek(pl_, o)

----------------------------------------------------------------------------
(* The sections FindPairings is called on *)

\* a player of a rated Swiss section, one game per round, no team, no bye
\* wishes, before the round is paired
Entrant(id, rating, rnd, score, history, opps, bnum, bcol) ==
  [ trn_type |-> "S", rnd |-> rnd, board_num |-> bnum, board_color |-> bcol,
    play_id |-> id, reentry |-> 0, teammates |-> <<>>,
    opponents |-> [k \in DOMAIN opps |-> <<opps[k], 0>>],
    score |-> score, rating |-> rating, is_unrated |-> FALSE,
    use_rating |-> "uscf", provisional |-> 10, rand |-> id,
    bye_house |-> FALSE, bye_request |-> FALSE, unplayed_count |-> 0,
    half_bye_count |-> 0, bye_rounds |-> <<>>, due_color |-> <<>>,
    color_history |-> history, played_colors |-> history, first_color |-> "W",
    multiround |-> 1, paired |-> FALSE, rank |-> 0, teammate_ranks |-> <<>>,
    opponent_ranks |-> <<>> ]

\* the ratings of P1..P4
Ratings == <<2000, 1800, 1700, 1500>>

\* round 1: nobody has played
Round1(n, hints, colors) ==
  [k \in 1..n |-> Entrant(k, Ratings[k], 1, 0, <<>>, <<>>, hints[k], colors[k])]

\* round 2 after P1 beat P3 and P2 beat P4, the winners with White (scores
\* are doubled)
Round2(hints, colors) ==
  [k \in 1..4 |->
     Entrant(k, Ratings[k], 2, IF k <= 2 THEN 2 ELSE 0,
             IF k <= 2 THEN <<"W">> ELSE <<"B">>,
             <<(IF k <= 2 THEN k + 2 ELSE k - 2)>>, hints[k], colors[k])]

\* board_num hints: P1..P4 on two boards, or P4 without a hint (-1)
Hints4 == {<<1, 1, 2, 2>>, <<1, 2, 1, 2>>, <<1, 1, 2, -1>>}
Hints3 == {<<1, 1, 2>>}
ColorHints == <<"W", "B", "W", "B">>

Sections ==
  {Round1(4, h, ColorHints) : h \in Hints4}
  \cup {Round2(h, ColorHints) : h \in Hints4 \ {<<1, 1, 2, -1>>}}
  \cup {Round1(3, h, ColorHints) : h \in Hints3}

\* the deepest search asked for
MaxDepth == 1
\* how many rounds after this one the section can still have
MaxRemaining == 1

\* the arguments of FindPairings, and the build (fold: compiled with
\* optimisation, see Transpose)
Args(rnd) ==
  [ totalRounds : rnd..(rnd + MaxRemaining), firstBoardNum : {1},
    depth : 0..MaxDepth, useFirstPairings : BOOLEAN, skipOptimize : BOOLEAN,
    fold : BOOLEAN ]

----------------------------------------------------------------------------
(* FindPairings as steps: pc is "call" before the call, "opt" inside       *)
(* MinimizePairingCost, "done" after the return, "aborted" after a failed  *)
(* ASSERT.                                                                 *)

\* pl after "put PlayerVector in canonical form"
Canon(pl_) == CanonicalPlayerVector(WithHouseBye(pl_))

\* pair after HintPairings(pl, pair, true)
Hinted(pl_) == HintPairings(Canon(pl_), TRUE)

\* the ASSERTs of FindPairings around the starting point (lines 2487-2521)
\* and those of FirstPairings (lines 1802-1804, 1820) on a pairing
StartAsserts(plc, pair_, n) ==
  /\ n <= Len(pair_)
  /\ n > 0 => LET p == PlAt(plc, pair_, n - 1) IN ~p.bye_request /\ ~p.paired
  /\ (n < Len(pair_) /\ ~IsBye(PlAt(plc, pair_, n)))
       => LET p == PlAt(plc, pair_, n) IN p.bye_request \/ p.paired

FirstAsserts(plc, pair_, n) ==
  /\ n <= Len(pair_)
  /\ \A x \in 0..(n - 1) : ~IsBye(PlAt(plc, pair_, x))
  /\ n % 2 = 0 \/ (n < Len(pair_) /\ IsBye(PlAt(plc, pair_, n)))

\* pair at line 2532: the starting point of the search
Start(pl_, useFirstPairings) ==
  IF useFirstPairings THEN FirstPairings(Canon(pl_), Hinted(pl_), Players(pl_))
  ELSE Hinted(pl_)

\* does the call get to line 2532?
Starts(pl_, useFirstPairings) ==
  /\ StartAsserts(Canon(pl_), Hinted(pl_), Players(pl_))
  /\ useFirstPairings =>
       /\ FirstAsserts(Canon(pl_), Hinted(pl_), Players(pl_))
       /\ StartAsserts(Canon(pl_), Start(pl_, TRUE), Players(pl_))

\* a failed ASSERT ends the program
Abort ==
  /\ pc = "call"
  /\ ~Starts(pl, arg.useFirstPairings)
  /\ pc' = "aborted"
  /\ UNCHANGED <<prm, c1, c2, arg, pl, pair, players, opt, cost, call, first, pre>>

\* the ASSERTs of "set boards and colors" (lines 2555-2583) on the pairing
\* pair_ the search or the starting point has left: no board has the
\* sentinel first, the colours given are W and B, everybody has a colour,
\* and nobody has the number of a board of two others.  The sentinel is
\* asked with the number of its last board, or the -1 it came with.
BoardAsserts(plc, pair_, firstBoardNum) ==
  LET fp == FinalSort(plc, pair_)
      out == SetBoards(plc, fp, FirstBoardNum(plc, firstBoardNum))
      On(k, y) == \/ PlAt(out, fp, y).play_id = out[k].play_id
                     /\ PlAt(out, fp, y).reentry = out[k].reentry
                  \/ PlAt(out, fp, y + 1).play_id = out[k].play_id
                     /\ PlAt(out, fp, y + 1).reentry = out[k].reentry
  IN  /\ \A x \in Boards(0, Len(fp)) :
           /\ ~IsBye(PlAt(plc, fp, x))
           /\ AllocateColor(PlAt(plc, fp, x + 1), PlAt(plc, fp, x),
                            (x \div 2) % 2 = 0) \in {"W", "B"}
      /\ \A k \in 1..Len(out) :
           /\ out[k].board_color \in {"W", "B"} \/ IsBye(out[k])
           /\ \A y \in Boards(0, Len(fp)) :
                \/ IsBye(PlAt(out, fp, y + 1))
                \/ On(k, y)
                \/ IsBye(out[k]) /\ \E p \in DOMAIN fp : fp[p] = k - 1
                \/ PlAt(out, fp, y).board_num # out[k].board_num

\* lines 2536-2590: "set boards and colors", and the return of the cost
Returned(plc, pair_, c) ==
  /\ BoardAsserts(plc, pair_, arg.firstBoardNum) = TRUE
  /\ pair' = FinalSort(plc, pair_)
  /\ pl' = SetBoards(plc, pair', FirstBoardNum(plc, arg.firstBoardNum))
  /\ cost' = c
  /\ pc' = "done"

\* the cost of the best pairing without doCodes
ReturnedCostNoCodes(plc, o, uninit) ==
  CostFunction(plc, o.bestPair, o.remainingRounds, o.pBegin, o.pEnd, FALSE, TRUE,
               uninit).c

\* the Cost MinimizePairingCost returns (line 2299): the cost function run
\* once more, with doCodes, on the best pairing
ReturnedCost(plc, o, uninit) ==
  CostFunction(plc, o.bestPair, o.remainingRounds, o.pBegin, o.pEnd, TRUE, TRUE,
               uninit).c

\* FindPairings with skipOptimize: the cost of the starting point
Evaluate ==
  /\ pc = "call"
  /\ arg.skipOptimize
  /\ Starts(pl, arg.useFirstPairings)
  /\ \E uninit \in Uninits(arg.fold) :
       LET plc == Canon(pl)
           n == Players(pl)
           start == Start(pl, arg.useFirstPairings)
           pEnd == ((n + 1) \div 2) * 2
           rem == arg.totalRounds - plc[1].rnd
       IN  /\ Returned(plc, start,
                       CostFunction(plc, start, rem, 0, pEnd, TRUE, TRUE, uninit).c)
           /\ pre' = [pl |-> plc, pair |-> start, pBegin |-> 0, pEnd |-> pEnd,
                      remainingRounds |-> rem]
           /\ players' = n
  /\ UNCHANGED <<prm, c1, c2, arg, opt, call, first>>

\* FindPairings up to the first tuple MinimizePairingCost tries
Search ==
  /\ pc = "call"
  /\ ~arg.skipOptimize
  /\ Starts(pl, arg.useFirstPairings)
  /\ \E uninit \in Uninits(arg.fold) :
       LET plc == Canon(pl)
           start == Start(pl, arg.useFirstPairings)
       IN  /\ pl' = plc
           /\ pair' = start
           /\ players' = Players(pl)
           /\ opt' = SeekFirst(plc,
                       OptEnter(plc, start, arg.totalRounds - plc[1].rnd, arg.depth,
                                0, Players(pl), FALSE, <<>>, uninit))
  /\ pc' = "opt"
  /\ UNCHANGED <<prm, c1, c2, arg, cost, call, first, pre>>

\* one candidate of the search
Try ==
  /\ pc = "opt"
  /\ opt.searching
  /\ \E uninit \in Uninits(arg.fold) :
       opt' = AfterTry(pl, Tried(pl, opt, uninit))
  /\ UNCHANGED <<prm, c1, c2, pc, arg, pl, pair, players, cost, call, first, pre>>

\* lines 2279-2297: the search ran without the lookahead, and the cost with
\* it differs from bestCost; redo using PairableCost
Redo ==
  /\ pc = "opt"
  /\ ~opt.searching
  /\ ~opt.usePairableCost
  /\ \E check \in Uninits(arg.fold), uninit \in Uninits(arg.fold) :
       /\ CostNe(CostFunction(pl, opt.bestPair, opt.remainingRounds, opt.pBegin,
                              opt.pEnd, FALSE, TRUE, check).c,
                 opt.bestCost)
       /\ opt' = SeekFirst(pl,
                   OptEnter(pl, opt.bestPair, opt.remainingRounds, opt.depth,
                            opt.pBegin, opt.pEnd, TRUE, opt.accepted, uninit))
  /\ pair' = opt.bestPair
  /\ UNCHANGED <<prm, c1, c2, pc, arg, pl, players, cost, call, first, pre>>

\* lines 2279-2311 and 2536-2590: MinimizePairingCost returns, FindPairings
\* sets boards and colours and returns
Return ==
  /\ pc = "opt"
  /\ ~opt.searching
  /\ \E check \in Uninits(arg.fold), uninit \in Uninits(arg.fold) :
       /\ opt.usePairableCost
            \/ CostEq(CostFunction(pl, opt.bestPair, opt.remainingRounds,
                                   opt.pBegin, opt.pEnd, FALSE, TRUE, check).c,
                      opt.bestCost)
       /\ Returned(pl, opt.bestPair, ReturnedCost(pl, opt, uninit))
  /\ pre' = [pl |-> pl, pair |-> opt.bestPair, pBegin |-> opt.pBegin,
             pEnd |-> opt.pEnd, remainingRounds |-> opt.remainingRounds]
  /\ UNCHANGED <<prm, c1, c2, arg, players, opt, call, first>>

\* a failed ASSERT of "set boards and colors" ends the program
AbortBoards ==
  /\ \/ /\ pc = "call"
        /\ arg.skipOptimize
        /\ Starts(pl, arg.useFirstPairings)
        /\ ~BoardAsserts(Canon(pl), Start(pl, arg.useFirstPairings), arg.firstBoardNum)
     \/ /\ pc = "opt"
        /\ ~opt.searching
        /\ \E check \in Uninits(arg.fold) :
             opt.usePairableCost
               \/ CostEq(CostFunction(pl, opt.bestPair, opt.remainingRounds,
                                      opt.pBegin, opt.pEnd, FALSE, TRUE, check).c,
                         opt.bestCost)
        /\ ~BoardAsserts(pl, opt.bestPair, arg.firstBoardNum)
  /\ pc' = "aborted"
  /\ UNCHANGED <<prm, c1, c2, arg, pl, pair, players, opt, cost, call, first, pre>>

\* the caller runs FindPairings again on the same input
Rerun ==
  /\ pc = "done"
  /\ call = 1
  /\ call' = 2
  /\ first' = [first EXCEPT !.how = "same", !.pl = pl, !.pair = pair, !.cost = cost]
  /\ pl' = first.input
  /\ pc' = "call"
  /\ UNCHANGED <<prm, c1, c2, arg, pair, players, opt, cost, pre>>

\* the caller runs FindPairings again on its output: the board_num and
\* board_color it set are the hints
Rehint ==
  /\ pc = "done"
  /\ call = 1
  /\ call' = 2
  /\ first' = [first EXCEPT !.how = "hint", !.pl = pl, !.pair = pair, !.cost = cost]
  /\ pc' = "call"
  /\ UNCHANGED <<prm, c1, c2, arg, pl, pair, players, opt, cost, pre>>

NoOpt == [searching |-> FALSE]
NoPre == [pl |-> <<>>, pair |-> <<>>, pBegin |-> 0, pEnd |-> 0, remainingRounds |-> 0]

Init ==
  /\ pl \in Sections
  /\ arg \in Args(pl[1].rnd)
  /\ pc = "call"
  /\ call = 1
  /\ first = [how |-> "none", input |-> pl, pl |-> <<>>, pair |-> <<>>,
              cost |-> ZeroCost]
  /\ pair = <<>>
  /\ players = 0
  /\ opt = NoOpt
  /\ pre = NoPre
  /\ cost = ZeroCost
  /\ c1 = ZeroCost
  /\ c2 = ZeroCost
  /\ prm = <<>>

Next ==
  \/ Abort
  \/ Evaluate
  \/ Search
  \/ Try
  \/ Redo
  \/ Return
  \/ Rerun
  \/ Rehint

Spec == Init /\ [][Next]_vars


----------------------------------------------------------------------------
(* operator< on Cost records, on its own *)

\* the largest value a counter of a compared record has
MaxCount == 2

\* the words that differ from zero in the records that are compared: the
\* first counter, one in the middle, the last counter, and players
SampleFields == {"byeChoice", "teamBlocks", "boardOrder", "players"}

CostSamples ==
  {[f \in Range(CostFields) |-> IF f \in SampleFields THEN v[f] ELSE 0] :
     v \in [SampleFields -> 0..MaxCount]}

\* c1 < c2, c1 == c2 and c1 > c2 (operator> is "y < x") are evaluated
Compare ==
  /\ pc = "cost"
  /\ opt' = [less |-> CostLess(c1, c2), equal |-> CostEq(c1, c2),
             greater |-> CostLess(c2, c1)]
  /\ pc' = "compared"
  /\ UNCHANGED <<prm, c1, c2, arg, pl, pair, players, cost, call, first, pre>>

InitCost ==
  /\ c1 \in CostSamples
  /\ c2 \in CostSamples
  /\ pc = "cost"
  /\ opt = NoOpt
  /\ arg = <<>> /\ pl = <<>> /\ pair = <<>> /\ players = 0 /\ cost = ZeroCost
  /\ call = 0 /\ first = <<>> /\ pre = NoPre /\ prm = <<>>

NextCost == Compare

SpecCost == InitCost /\ [][NextCost]_vars

----------------------------------------------------------------------------
(* The tiebreak functions.  A real or double is kept as the exact fraction *)
(* [num, den], den > 0, in lowest terms.                                   *)

RECURSIVE Gcd(_, _)
Gcd(a, b) == IF b = 0 THEN a ELSE Gcd(b, a % b)

Rat(n, d) == LET g == Gcd(Abs(n), d) IN [num |-> n \div g, den |-> d \div g]
RatInt(n) == [num |-> n, den |-> 1]
RatAdd(a, b) == Rat(a.num * b.den + b.num * a.den, a.den * b.den)
RatSub(a, b) == Rat(a.num * b.den - b.num * a.den, a.den * b.den)
RatTimes(a, k) == Rat(a.num * k, a.den)
RatLess(a, b) == a.num * b.den < b.num * a.den

RECURSIVE RatSum(_)
RatSum(v) == IF v = <<>> THEN RatInt(0) ELSE RatAdd(Head(v), RatSum(Tail(v)))

\* the result letters, by what the switch statements do with them
DoubleWin == {"$"}
WinAndDraw == {"#"}
DoubleGame == {"%"}
Wins == {"W", "N"}
FullByes == {"B", "X"}
Draws == {"D", "R"}
HalfByes == {"H", "Z"}
Losses == {"L", "S"}
Unplayed == {"U", "F", "*"}

\* what one round adds in TiebreakPlayer's switch: rawScore, adjScore and
\* byeScore in half points, kashdan, blackCnt, winCnt, byeCnt
PlayerRow(result, color) ==
  LET black == B2N(color = "B")
      Row(raw, adj, bye, kashdan, blackCnt, winCnt, byeCnt) ==
        [raw |-> raw, adj |-> adj, bye |-> bye, kashdan |-> kashdan,
         blackCnt |-> blackCnt, winCnt |-> winCnt, byeCnt |-> byeCnt]
  IN  CASE result \in DoubleWin -> Row(4, 4, 0, 8, 1, 2, 0)
        [] result \in WinAndDraw -> Row(3, 3, 0, 6, 1, 1, 0)
        [] result \in DoubleGame -> Row(2, 2, 0, 4, 1, 0, 0)
        [] result \in Wins -> Row(2, 2, 0, 4, black, 1, 0)
        [] result \in FullByes -> Row(2, 1, 2, 0, 0, 0, 1)
        [] result \in Draws -> Row(1, 1, 0, 2, black, 0, 0)
        [] result \in HalfByes -> Row(1, 1, 1, 0, 0, 0, 1)
        [] result \in Losses -> Row(0, 0, 0, 1, black, 0, 0)
        [] result \in Unplayed -> Row(0, 1, 0, 0, 0, 0, 1)

\* one round of the loop of TiebreakPlayer
TiebreakRound(p, x) ==
  LET row == PlayerRow(At(p.result, x), At(p.color, x))
      up == p.firstLossRound + B2N(p.firstLossRound = x)
      raw == RatAdd(p.rawScore, Rat(row.raw, 2))
  IN  [p EXCEPT
         !.firstLossRound = IF At(p.result, x) \in Losses
                              THEN up - B2N(up = x + 1) ELSE up,
         !.rawScore = raw,
         !.adjScore = RatAdd(@, Rat(row.adj, 2)),
         !.byeScore = RatAdd(@, Rat(row.bye, 2)),
         !.kashdan = @ + row.kashdan,
         !.blackCnt = @ + row.blackCnt,
         !.winCnt = @ + row.winCnt,
         !.byeCnt = @ + row.byeCnt,
         !.cumScore = RatAdd(@, raw)]

RECURSIVE TiebreakRounds(_, _)
TiebreakRounds(p, x) ==
  IF x >= Len(p.color) THEN p ELSE TiebreakRounds(TiebreakRound(p, x), x + 1)

\* the calculation fields TiebreakPlayer sets before its loop
Cleared(p) ==
  [p EXCEPT !.rawScore = RatInt(0), !.adjScore = RatInt(0),
            !.cumScore = RatInt(0), !.byeScore = RatInt(0), !.kashdan = 0,
            !.byeCnt = 0, !.blackCnt = 0, !.winCnt = 0, !.firstLossRound = 0,
            !.coinFlip = RatInt(-1)]

\* void TiebreakPlayer (PlayerResult &p, const text &byeKey)
TiebreakPlayer(p, byeKey) ==
  IF p.player = byeKey THEN Cleared(p)
  ELSE LET q == TiebreakRounds(Cleared(p), 0)
       IN  [q EXCEPT !.cumScore = RatSub(@, q.byeScore),
                     !.firstLossRound = @ + 1]

\* the ASSERTs of TiebreakPlayer
PlayerAsserts(p, byeKey) ==
  /\ Len(p.opponent) = Len(p.color) /\ Len(p.result) = Len(p.color)
  /\ p.player = byeKey => p.rating = 0

\* the entries of the map before the one of this player, in the order of the
\* keys
EarlierKeys(prm_, player) == {k \in DOMAIN prm_ : k < player}

\* "p.coinFlip = rand()": an int below 2^25 stored in a real, which is a
\* float of 24 bits of mantissa (round to nearest, ties to even)
RealOf(n) ==
  IF n <= 2^24 \/ n % 2 = 0 THEN RatInt(n)
  ELSE IF ((n - 1) \div 2) % 2 = 0 THEN RatInt(n - 1) ELSE RatInt(n + 1)

\* no "goto nextFlip" at all
FlipTakenNever(prm_, p, flip) == FALSE

\* "goto nextFlip": an earlier entry has this coinFlip already
FlipTaken(prm_, p, flip) ==
  \E k \in EarlierKeys(prm_, p.player) : prm_[k].coinFlip = RealOf(flip)

\* void TiebreakCoinFlip (prm, p, byeKey), flip being the rand() that is kept
TiebreakCoinFlip(prm_, p, byeKey, flip) ==
  IF p.player = byeKey THEN p ELSE [p EXCEPT !.coinFlip = RealOf(flip)]

\* TiebreakPerformance: what a round adds to head2head between tied players
HeadToHead(result) ==
  CASE result \in DoubleWin -> 2
    [] result \in WinAndDraw -> 1
    [] result \in Wins -> 1
    [] result \in Losses -> -1
    [] OTHER -> 0

\* TiebreakPerformance: what a round adds to ratingSum besides the rating of
\* the opponent
PerformanceStep(result) ==
  CASE result \in DoubleWin -> 400
    [] result \in WinAndDraw -> 200
    [] result \in Wins -> 400
    [] result \in Losses -> -400
    [] OTHER -> 0

\* the rounds of p against opponents with the same rawScore, and the others
\* that count for the performance rating
TiedRounds(prm_, p) ==
  {x \in 0..(Len(p.color) - 1) : prm_[At(p.opponent, x)].rawScore = p.rawScore}

RatedRounds(prm_, p) ==
  {x \in 0..(Len(p.color) - 1) :
     /\ x \notin TiedRounds(prm_, p)
     /\ At(p.result, x) \notin FullByes \cup HalfByes \cup Unplayed}

\* void TiebreakPerformance (prm, p, byeKey)
TiebreakPerformance(prm_, p, byeKey) ==
  IF p.player = byeKey
    THEN [p EXCEPT !.head2head = RatInt(0), !.performanceRating = RatInt(p.rating)]
  ELSE LET tied == TiedRounds(prm_, p)
           rated == RatedRounds(prm_, p)
           playerCnt == Cardinality(rated)
           head2head ==
             SumSeq([k \in 1..Len(p.color) |->
                       IF k - 1 \in tied THEN HeadToHead(p.result[k]) ELSE 0])
           ratingSum ==
             SumSeq([k \in 1..Len(p.color) |->
                       IF k - 1 \in rated
                         THEN PerformanceStep(p.result[k]) + prm_[p.opponent[k]].rating
                         ELSE 0])
       IN  [p EXCEPT
              !.head2head = RatInt(head2head),
              !.performanceRating =
                 IF playerCnt <= 0 THEN RatInt(p.rating)
                 ELSE Rat(ratingSum, playerCnt)]

\* bool TiebreakPlayed (char result)
TiebreakPlayed(result) == result \notin FullByes \cup HalfByes \cup Unplayed

\* TiebreakOpponent: what a round adds to partialScore, r being the rawScore
\* of the opponent; the cases '$', '#', '%' and 'W' have no break and fall
\* through to the next, 'D' falls through to a break
PartialStep(result, r) ==
  CASE result \in DoubleWin -> Rat(r.num * 11, r.den * 2)
    [] result \in WinAndDraw -> Rat(r.num * 7, r.den * 2)
    [] result \in DoubleGame -> RatTimes(r, 2)
    [] result \in Wins -> r
    [] result \in Draws -> Rat(r.num, r.den * 2)
    [] OTHER -> RatInt(0)

\* adj[k], adj.front() and adj.back(): a read outside the vector gives an
\* indeterminate value
AdjAt(adj, k, uninit) == IF 0 <= k /\ k < Len(adj) THEN At(adj, k) ELSE uninit

\* the 'M' value: modified median, rule 34E1
ModifiedMedian(p, rounds, adj, adjSum, uninit) ==
  LET twice == (p.rawScore.num * 2) \div p.rawScore.den
      low == B2N(twice >= rounds)
      high == B2N(twice <= rounds)
  IN  IF rounds < 2 THEN RatInt(0)
      ELSE IF rounds < 9
        THEN RatSub(RatSub(adjSum, RatTimes(AdjAt(adj, 0, uninit.front), low)),
                    RatTimes(AdjAt(adj, Len(adj) - 1, uninit.back), high))
      ELSE RatSub(RatSub(adjSum,
                         RatTimes(RatAdd(AdjAt(adj, 0, uninit.front),
                                         AdjAt(adj, 1, uninit.front)), low)),
                  RatTimes(RatAdd(AdjAt(adj, rounds - 2, uninit.back),
                                  AdjAt(adj, rounds - 1, uninit.back)), high))

\* the 'B' value: median, rule 34E4
Median(rounds, adj, adjSum, uninit) ==
  IF rounds <= 2 THEN RatInt(0)
  ELSE IF rounds < 9
    THEN RatSub(RatSub(adjSum, AdjAt(adj, 0, uninit.front)),
                AdjAt(adj, Len(adj) - 1, uninit.back))
  ELSE RatSub(RatSub(adjSum,
                     RatAdd(AdjAt(adj, 0, uninit.front), AdjAt(adj, 1, uninit.front))),
              RatAdd(AdjAt(adj, rounds - 2, uninit.back),
                     AdjAt(adj, rounds - 1, uninit.back)))

TiebreakCodes ==
  <<"M", "S", "C", "B", "H", "T", "K", "R", "O", "P", "A", "W", "L", "Z">>

\* the values TiebreakOpponent pushes, given what its loop added up; adj is
\* sorted
TiebreakValues(p, rounds, adj, adjSum, cumSum, partialScore, perfAvg, ratAvg, uninit) ==
  << ModifiedMedian(p, rounds, adj, adjSum, uninit), adjSum, p.cumScore,
     Median(rounds, adj, adjSum, uninit), p.head2head, RatInt(p.blackCnt),
     RatInt(p.kashdan), partialScore, cumSum, perfAvg, ratAvg,
     RatInt(p.winCnt), RatInt(p.firstLossRound), p.coinFlip >>

\* TiebreakOpponent after its loop; opp[k] is the opponent of round k and
\* played[k] is isPlayed (both empty for the bye, whose rounds the loop
\* skips)
OpponentValues(p, rounds, opp, played, uninit) ==
  LET adj == [k \in DOMAIN opp |->
                IF played[k] THEN opp[k].adjScore ELSE RatInt(0)]
      playCnt == Cardinality({k \in DOMAIN opp : played[k]})
      ratSum == SumSeq([k \in DOMAIN opp |-> IF played[k] THEN opp[k].rating ELSE 0])
      perfSum == RatSum([k \in DOMAIN opp |->
                           IF played[k] THEN opp[k].performanceRating ELSE RatInt(0)])
  IN  TiebreakValues(p, rounds, SortSeq(adj, RatLess), RatSum(adj),
        RatSum([k \in DOMAIN opp |-> opp[k].cumScore]),
        RatSum([k \in DOMAIN opp |-> PartialStep(p.result[k], opp[k].rawScore)]),
        IF playCnt <= 0 THEN p.performanceRating
        ELSE Rat(perfSum.num, perfSum.den * playCnt),
        IF playCnt <= 0 THEN RatInt(p.rating) ELSE Rat(ratSum, playCnt),
        uninit)

\* void TiebreakOpponent (prm, p, byeKey)
TiebreakOpponent(prm_, p, byeKey, uninit) ==
  LET looped == IF p.player = byeKey THEN 0 ELSE Len(p.color)
  IN  [p EXCEPT
         !.tiebreak_code = @ \o TiebreakCodes,
         !.tiebreak_value =
            @ \o OpponentValues(p, Len(p.color),
                                [k \in 1..looped |-> prm_[p.opponent[k]]],
                                [k \in 1..looped |-> TiebreakPlayed(p.result[k])],
                                uninit)]

\* the ASSERTs at the end of TiebreakCalculation
ByeAsserts(bye) ==
  /\ \A x \in 0..(Len(bye.tiebreak_value) - 2) :
       At(bye.tiebreak_value, x) = RatInt(0)
  /\ bye.tiebreak_value[Len(bye.tiebreak_value)] = RatInt(-1)

----------------------------------------------------------------------------
(* TiebreakCalculation as steps: pc is "tb_players" in the first loop,     *)
(* "tb_opponent" before the third, "tb_asserts" before the final ASSERTs.  *)

\* the largest value rand() gives
MaxRand == 3

\* the values rand() gives: small ones, and ones that a float cannot all hold
Flips == (0..MaxRand) \cup {2^24 + k : k \in 0..MaxRand}

\* what the reads of adj.front() and adj.back() of an empty vector can give
Garbage == {[front |-> RatInt(f), back |-> RatInt(b)] : f, b \in 0..MaxUninit}

\* a PlayerResult as the caller hands it over: the calculation fields hold
\* what was left in them, the output fields are empty
PlayerResult(player, rating, opponent, color, result) ==
  [ player |-> player, rating |-> rating, opponent |-> opponent,
    color |-> color, result |-> result,
    rawScore |-> RatInt(0), adjScore |-> RatInt(0), cumScore |-> RatInt(0),
    byeScore |-> RatInt(0), head2head |-> RatInt(0), byeCnt |-> 0,
    blackCnt |-> 0, kashdan |-> 0, winCnt |-> 0, firstLossRound |-> 0,
    performanceRating |-> RatInt(0), coinFlip |-> RatInt(0),
    tiebreak_code |-> <<>>, tiebreak_value |-> <<>> ]

\* three players, three rounds, each wins once, loses once and has a
\* full-point bye; the entry of the bye has byeRounds rounds
RoundRobin3(bye, byeRounds) ==
  (1 :> PlayerResult(1, 2000, <<2, bye, 3>>, <<"W", "x", "B">>, <<"W", "B", "L">>))
  @@ (2 :> PlayerResult(2, 1800, <<1, 3, bye>>, <<"B", "W", "x">>, <<"L", "W", "B">>))
  @@ (3 :> PlayerResult(3, 1700, <<bye, 2, 1>>, <<"x", "B", "W">>, <<"B", "L", "W">>))
  @@ (bye :> PlayerResult(bye, 0, SubSeq(<<3, 1, 2>>, 1, byeRounds),
                          SubSeq(<<"x", "x", "x">>, 1, byeRounds),
                          SubSeq(<<"L", "L", "L">>, 1, byeRounds)))

\* two players, one round, a draw; with or without an entry for the bye
Draw2(bye, withBye) ==
  LET games == (1 :> PlayerResult(1, 2000, <<2>>, <<"W">>, <<"D">>))
               @@ (2 :> PlayerResult(2, 1800, <<1>>, <<"B">>, <<"D">>))
  IN  IF withBye THEN games @@ (bye :> PlayerResult(bye, 0, <<>>, <<>>, <<>>))
      ELSE games

\* the key of the bye sorts before the players' keys, or after them
ByeKeys == {0, 9}

TiebreakInputs ==
  {[prm |-> RoundRobin3(b, r), byeKey |-> b] : b \in ByeKeys, r \in 0..3}
  \cup {[prm |-> Draw2(b, w), byeKey |-> b] : b \in ByeKeys, w \in BOOLEAN}

\* the key of the i-th entry of the map (0-based)
KeyAt(prm_, i) ==
  CHOOSE k \in DOMAIN prm_ : Cardinality(EarlierKeys(prm_, k)) = i

\* one round of the first loop of TiebreakCalculation: TiebreakPlayer and
\* TiebreakCoinFlip for the next entry
TbPlayer ==
  /\ pc = "tb_players"
  /\ opt.i < Cardinality(DOMAIN prm)
  /\ LET key == KeyAt(prm, opt.i)
         p == TiebreakPlayer(prm[key], arg.byeKey)
     IN  /\ PlayerAsserts(prm[key], arg.byeKey)
         /\ \E flip \in Flips :
              /\ p.player = arg.byeKey \/ ~FlipTaken(prm, p, flip)
              /\ prm' = [prm EXCEPT ![key] = TiebreakCoinFlip(prm, p, arg.byeKey, flip)]
  /\ opt' = [opt EXCEPT !.i = @ + 1]
  /\ UNCHANGED <<c1, c2, pc, arg, pl, pair, players, cost, call, first, pre>>

\* the second loop: TiebreakPerformance for every entry
TbPerformance ==
  /\ pc = "tb_players"
  /\ opt.i = Cardinality(DOMAIN prm)
  /\ arg.byeKey \in DOMAIN prm
  /\ prm' = [k \in DOMAIN prm |-> TiebreakPerformance(prm, prm[k], arg.byeKey)]
  /\ pc' = "tb_opponent"
  /\ UNCHANGED <<c1, c2, arg, pl, pair, players, opt, cost, call, first, pre>>

\* the third loop: TiebreakOpponent for every entry
TbOpponent ==
  /\ pc = "tb_opponent"
  /\ \E uninit \in Garbage :
       prm' = [k \in DOMAIN prm |->
                 TiebreakOpponent(prm, prm[k], arg.byeKey, uninit)]
  /\ pc' = "tb_asserts"
  /\ UNCHANGED <<c1, c2, arg, pl, pair, players, opt, cost, call, first, pre>>

\* the final ASSERTs hold and TiebreakCalculation returns
TbReturn ==
  /\ pc = "tb_asserts"
  /\ ByeAsserts(prm[arg.byeKey])
  /\ pc' = "done"
  /\ UNCHANGED <<prm, c1, c2, arg, pl, pair, players, opt, cost, call, first, pre>>

\* a failed ASSERT ends the program: "ASSERT(bye != 0)" after the first
\* loop, or one of the final ASSERTs
TbAbort ==
  /\ \/ /\ pc = "tb_players"
        /\ opt.i = Cardinality(DOMAIN prm)
        /\ arg.byeKey \notin DOMAIN prm
     \/ /\ pc = "tb_asserts"
        /\ ~ByeAsserts(prm[arg.byeKey])
  /\ pc' = "aborted"
  /\ UNCHANGED <<prm, c1, c2, arg, pl, pair, players, opt, cost, call, first, pre>>

InitTiebreak ==
  /\ \E in \in TiebreakInputs :
       /\ prm = in.prm
       /\ arg = [byeKey |-> in.byeKey]
  /\ pc = "tb_players"
  /\ opt = [i |-> 0]
  /\ c1 = ZeroCost /\ c2 = ZeroCost /\ pl = <<>> /\ pair = <<>> /\ players = 0
  /\ cost = ZeroCost /\ call = 0 /\ first = <<>> /\ pre = NoPre

NextTiebreak ==
  \/ TbPlayer
  \/ TbPerformance
  \/ TbOpponent
  \/ TbReturn
  \/ TbAbort

SpecTiebreak == InitTiebreak /\ [][NextTiebreak]_vars

----------------------------------------------------------------------------
(* FindPairings on a section of five, one player to get the bye *)

\* P5 of scenario S3: rated, or unrated with this many games played
Fifth(unrated, provisional, use_rating, bnum) ==
  [Entrant(5, 1300, 1, 0, <<>>, <<>>, bnum, "W") EXCEPT
     !.is_unrated = unrated, !.provisional = provisional,
     !.use_rating = use_rating]

\* board_num hints for P1..P5: P5 alone on board 3, P1 alone on board 1, or
\* P5 without a hint
Hints5 == {<<1, 1, 2, 2, 3>>, <<1, 2, 2, 3, 3>>, <<1, 1, 2, 2, -1>>}

\* what is on file of P5: rated (10 games), or unrated with 0, 3 or 10 games,
\* or unrated in an event that uses no ratings
Fifths == {<<FALSE, 10, "uscf">>, <<TRUE, 0, "uscf">>, <<TRUE, 3, "uscf">>, <<TRUE, 10, "uscf">>, <<TRUE, 10, "none">>}

Sections5 ==
  {Round1(4, h, ColorHints) \o <<Fifth(f[1], f[2], f[3], h[5])>> :
     h \in Hints5, f \in Fifths}

\* the section is paired from the hints or from FirstPairings, the search
\* skipped
InitFive ==
  /\ pl \in Sections5
  /\ arg \in {a \in Args(1) : a.skipOptimize}
  /\ pc = "call"
  /\ call = 1
  /\ first = [how |-> "none", input |-> pl, pl |-> <<>>, pair |-> <<>>,
              cost |-> ZeroCost]
  /\ pair = <<>>
  /\ players = 0
  /\ opt = NoOpt
  /\ pre = NoPre
  /\ cost = ZeroCost
  /\ c1 = ZeroCost
  /\ c2 = ZeroCost
  /\ prm = <<>>

NextFive ==
  \/ Abort
  \/ Evaluate

SpecFive == InitFive /\ [][NextFive]_vars

----------------------------------------------------------------------------
(* Round robin: the Crenshaw-Berger tables and the short cut of            *)
(* FindPairings.  A table row is <<size, round, pairings>> or <<size,      *)
(* round, withdraw, reversals>>, a pairing "p1-p2" is <<p1, p2>>.          *)

\* static const string roundRobinPairings[]
roundRobinPairings ==
  << <<4, 1, <<<<1, 4>>, <<2, 3>>>>>>,
     <<4, 2, <<<<3, 1>>, <<4, 2>>>>>>,
     <<4, 3, <<<<1, 2>>, <<3, 4>>>>>>,
     <<6, 1, <<<<3, 6>>, <<5, 4>>, <<1, 2>>>>>>,
     <<6, 2, <<<<2, 6>>, <<4, 1>>, <<3, 5>>>>>>,
     <<6, 3, <<<<6, 5>>, <<1, 3>>, <<4, 2>>>>>>,
     <<6, 4, <<<<6, 4>>, <<5, 1>>, <<2, 3>>>>>>,
     <<6, 5, <<<<1, 6>>, <<2, 5>>, <<3, 4>>>>>>,
     <<8, 1, <<<<4, 8>>, <<5, 3>>, <<6, 2>>, <<7, 1>>>>>>,
     <<8, 2, <<<<8, 7>>, <<1, 6>>, <<2, 5>>, <<3, 4>>>>>>,
     <<8, 3, <<<<3, 8>>, <<4, 2>>, <<5, 1>>, <<6, 7>>>>>>,
     <<8, 4, <<<<8, 6>>, <<7, 5>>, <<1, 4>>, <<2, 3>>>>>>,
     <<8, 5, <<<<2, 8>>, <<3, 1>>, <<4, 7>>, <<5, 6>>>>>>,
     <<8, 6, <<<<8, 5>>, <<6, 4>>, <<7, 3>>, <<1, 2>>>>>>,
     <<8, 7, <<<<1, 8>>, <<2, 7>>, <<3, 6>>, <<4, 5>>>>>>,
     <<10, 1, <<<<5, 10>>, <<6, 4>>, <<7, 3>>, <<8, 2>>, <<9, 1>>>>>>,
     <<10, 2, <<<<10, 9>>, <<1, 8>>, <<2, 7>>, <<3, 6>>, <<4, 5>>>>>>,
     <<10, 3, <<<<4, 10>>, <<5, 3>>, <<6, 2>>, <<7, 1>>, <<8, 9>>>>>>,
     <<10, 4, <<<<10, 8>>, <<9, 7>>, <<1, 6>>, <<2, 5>>, <<3, 4>>>>>>,
     <<10, 5, <<<<3, 10>>, <<4, 2>>, <<5, 1>>, <<6, 9>>, <<7, 8>>>>>>,
     <<10, 6, <<<<10, 7>>, <<8, 6>>, <<9, 5>>, <<1, 4>>, <<2, 3>>>>>>,
     <<10, 7, <<<<2, 10>>, <<3, 1>>, <<4, 9>>, <<5, 8>>, <<6, 7>>>>>>,
     <<10, 8, <<<<10, 6>>, <<7, 5>>, <<8, 4>>, <<9, 3>>, <<1, 2>>>>>>,
     <<10, 9, <<<<1, 10>>, <<2, 9>>, <<3, 8>>, <<4, 7>>, <<5, 6>>>>>> >>

\* static const string roundRobinReversals[]
roundRobinReversals ==
  << <<4, 3, 1, <<>>>>,
     <<4, 3, 2, <<<<4, 3>>>>>>,
     <<4, 3, 3, <<<<2, 1>>>>>>,
     <<4, 3, 4, <<>>>>,
     <<6, 5, 1, <<<<5, 2>>, <<4, 3>>>>>>,
     <<6, 5, 2, <<<<4, 3>>>>>>,
     <<6, 5, 3, <<>>>>,
     <<6, 5, 4, <<<<6, 1>>, <<5, 2>>>>>>,
     <<6, 5, 5, <<<<6, 1>>>>>>,
     <<6, 5, 6, <<>>>>,
     <<8, 5, 1, <<<<7, 2>>, <<5, 4>>>>>>,
     <<8, 5, 2, <<<<6, 3>>>>>>,
     <<8, 5, 3, <<<<5, 4>>, <<7, 2>>, <<2, 1>>>>>>,
     <<8, 5, 4, <<<<6, 3>>, <<3, 7>>, <<7, 2>>>>>>,
     <<8, 5, 5, <<<<8, 1>>, <<7, 4>>, <<4, 6>>, <<6, 3>>>>>>,
     <<8, 5, 6, <<<<8, 2>>, <<5, 4>>>>>>,
     <<8, 5, 7, <<<<8, 1>>, <<6, 3>>>>>>,
     <<8, 5, 8, <<>>>>,
     <<10, 7, 1, <<<<9, 2>>, <<7, 4>>>>>>,
     <<10, 7, 2, <<<<8, 3>>, <<6, 5>>>>>>,
     <<10, 7, 3, <<<<7, 4>>, <<9, 2>>, <<2, 1>>>>>>,
     <<10, 7, 4, <<<<6, 5>>, <<8, 3>>, <<3, 9>>, <<9, 2>>>>>>,
     <<10, 7, 5, <<<<9, 2>>, <<7, 4>>, <<2, 1>>, <<4, 8>>, <<8, 3>>>>>>,
     <<10, 7, 6, <<<<10, 2>>, <<8, 5>>, <<5, 7>>, <<7, 4>>>>>>,
     <<10, 7, 7, <<<<10, 1>>, <<6, 5>>, <<9, 4>>, <<4, 8>>, <<8, 3>>>>>>,
     <<10, 7, 8, <<<<10, 2>>, <<7, 4>>>>>>,
     <<10, 7, 9, <<<<10, 1>>, <<8, 3>>, <<6, 5>>>>>>,
     <<10, 7, 10, <<>>>> >>

\* only the first name of a pairing looked at
PairingHitsWhite(size, round, player) ==
  UNION {{<<y, "W", roundRobinPairings[x][3][y][2]>> :
            y \in {y \in DOMAIN roundRobinPairings[x][3] :
                     roundRobinPairings[x][3][y][1] = player}} :
         x \in {x \in DOMAIN roundRobinPairings :
                  roundRobinPairings[x][1] = size /\ roundRobinPairings[x][2] = round}}

\* the pairings of the rows for size and round in which player sits: the
\* board y, the colour and the opponent of each
PairingHits(size, round, player) ==
  UNION {{<<y, "W", roundRobinPairings[x][3][y][2]>> :
            y \in {y \in DOMAIN roundRobinPairings[x][3] :
                     roundRobinPairings[x][3][y][1] = player}}
         \cup {<<y, "B", roundRobinPairings[x][3][y][1]>> :
            y \in {y \in DOMAIN roundRobinPairings[x][3] :
                     roundRobinPairings[x][3][y][2] = player}} :
         x \in {x \in DOMAIN roundRobinPairings :
                  roundRobinPairings[x][1] = size /\ roundRobinPairings[x][2] = round}}

\* no row of the reversal table read
ReversalHitsNone(size, withdraw, player, opponent) == {}

\* the reversals of the rows for size and withdraw that name player and
\* opponent: the round of the row and the colour player gets
ReversalHits(size, withdraw, player, opponent) ==
  UNION {{<<roundRobinReversals[x][2], "W">> :
            y \in {y \in DOMAIN roundRobinReversals[x][4] :
                     roundRobinReversals[x][4][y] = <<player, opponent>>}}
         \cup {<<roundRobinReversals[x][2], "B">> :
            y \in {y \in DOMAIN roundRobinReversals[x][4] :
                     roundRobinReversals[x][4][y] = <<opponent, player>>}} :
         x \in {x \in DOMAIN roundRobinReversals :
                  roundRobinReversals[x][1] = size /\ roundRobinReversals[x][3] = withdraw}}

\* void CrenshawBergerLookup: board and color as they are set, isReversed,
\* and ok: no ASSERT failed
CrenshawBergerLookup(competitors, round, player, withdrawnPlayer) ==
  LET isBye == competitors % 2 = 1
      size == IF isBye THEN competitors + 1 ELSE competitors
      withdraw == IF withdrawnPlayer = 0 THEN size ELSE withdrawnPlayer
      found == PairingHits(size, round, player)
      hit == CHOOSE h \in found : TRUE
      turned == ReversalHits(size, withdraw, player, hit[3])
  IN  IF (isBye /\ withdrawnPlayer # 0) \/ Cardinality(found) # 1
           \/ ~(1 <= hit[3] /\ hit[3] # player /\ hit[3] <= size)
           \/ ~(1 <= hit[1] /\ hit[1] <= size \div 2)
        THEN [ok |-> FALSE, board |-> 0, color |-> "*", isReversed |-> FALSE]
      ELSE IF turned = {}
        THEN [ok |-> TRUE, board |-> hit[1], color |-> hit[2], isReversed |-> FALSE]
      ELSE LET turn == CHOOSE t \in turned : TRUE
           IN  [ok |-> /\ Cardinality(turned) = 1
                       /\ ~isBye /\ withdraw # size
                       /\ round >= turn[1],
                board |-> hit[1], color |-> turn[2], isReversed |-> TRUE]

\* bool LessRobinSort: byes last, then by rand
LessRobinSort(x, y) ==
  \/ ~IsBye(x) /\ IsBye(y)
  \/ IsBye(x) = IsBye(y) /\ x.rand < y.rand

\* pl after CanonicalPlayerVector and sort(..., LessRobinSort)
RobinSorted(pl_) == SortSeq(Canon(pl_), LessRobinSort)

\* totalRounds /= pl[0].multiround
RobinRounds(pl_, totalRounds) == totalRounds \div RobinSorted(pl_)[1].multiround

\* who sets withdrawnPlayer (lines 2440-2447), as player numbers x+1
Withdrawn(pl_, totalRounds) ==
  {k \in DOMAIN RobinSorted(pl_) :
     /\ Len(RobinSorted(pl_)[k].bye_rounds) > 0
     /\ RobinSorted(pl_)[k].bye_rounds[1] <= (RobinRounds(pl_, totalRounds) + 1) \div 2}

\* size_t withdrawnPlayer
WithdrawnPlayer(pl_, totalRounds) ==
  IF Withdrawn(pl_, totalRounds) = {} THEN 0
  ELSE CHOOSE k \in Withdrawn(pl_, totalRounds) : TRUE

\* the lookups of lines 2448-2455, one for each player
RobinLookups(pl_, totalRounds) ==
  LET s == RobinSorted(pl_)
  IN  [k \in DOMAIN s |->
         CrenshawBergerLookup(Len(s), (s[k].rnd - 1) \div s[k].multiround + 1, k,
                              WithdrawnPlayer(pl_, totalRounds))]

\* is this a round robin ("R") or a double round robin ("D")?
IsRobin(pl_) == Canon(pl_)[1].trn_type \in {"R", "D"}

\* the ASSERTs of lines 2438-2455 hold
RobinAsserts(pl_, totalRounds) ==
  /\ Len(RobinSorted(pl_)) - 1 = RobinRounds(pl_, totalRounds)
  /\ \A k \in DOMAIN RobinSorted(pl_) :
       IsBye(RobinSorted(pl_)[k]) => k = Len(RobinSorted(pl_))
  /\ Cardinality(Withdrawn(pl_, totalRounds)) <= 1
  /\ \A k \in DOMAIN RobinSorted(pl_) : RobinLookups(pl_, totalRounds)[k].ok

\* lines 2456-2465: who shares the board of the sentinel gets White, the
\* sentinel Black
RobinByeColor(pl_) ==
  LET last == Len(pl_)
      with == {x \in 1..(last - 1) : pl_[x].board_num = pl_[last].board_num}
  IN  IF ~IsBye(pl_[last]) \/ with = {} THEN pl_
      ELSE [pl_ EXCEPT ![CHOOSE x \in with : \A w \in with : x <= w].board_color = "W",
                       ![last].board_color = "B"]

\* lines 2434-2455: the section sorted and every player looked up
RobinLookup ==
  /\ pc = "call"
  /\ IsRobin(pl)
  /\ RobinAsserts(pl, arg.totalRounds)
  /\ pl' = [k \in DOMAIN RobinSorted(pl) |->
              [RobinSorted(pl)[k] EXCEPT
                 !.board_num = RobinLookups(pl, arg.totalRounds)[k].board
                               + arg.firstBoardNum - 1,
                 !.board_color = RobinLookups(pl, arg.totalRounds)[k].color]]
  /\ opt' = [searching |-> FALSE,
             withdrawnPlayer |-> WithdrawnPlayer(pl, arg.totalRounds),
             isReversed |-> [k \in DOMAIN RobinSorted(pl) |->
                               RobinLookups(pl, arg.totalRounds)[k].isReversed]]
  /\ pc' = "robin"
  /\ UNCHANGED <<prm, c1, c2, arg, pair, players, cost, call, first, pre>>

\* lines 2456-2467: the colours on the board of the sentinel, "return Cost()"
RobinReturn ==
  /\ pc = "robin"
  /\ IsBye(RobinByeColor(pl)[Len(pl)]) => RobinByeColor(pl)[Len(pl)].board_color = "B"
  /\ pl' = RobinByeColor(pl)
  /\ cost' = ZeroCost
  /\ pc' = "done"
  /\ UNCHANGED <<prm, c1, c2, arg, pair, players, opt, call, first, pre>>

\* a failed ASSERT of the short cut or of CrenshawBergerLookup ends the
\* program
RobinAbort ==
  /\ \/ pc = "call" /\ IsRobin(pl) /\ ~RobinAsserts(pl, arg.totalRounds)
     \/ /\ pc = "robin"
        /\ IsBye(RobinByeColor(pl)[Len(pl)])
        /\ RobinByeColor(pl)[Len(pl)].board_color # "B"
  /\ pc' = "aborted"
  /\ UNCHANGED <<prm, c1, c2, arg, pl, pair, players, opt, cost, call, first, pre>>

\* the largest section of the round robin
MaxRobin == 5

\* a round robin section of n before round rnd: the player numbers (rand)
\* follow play_id or run against it, the players of withdrawn have asked
\* for a bye in round bye
RobinSection(n, rnd, withdrawn, bye, against) ==
  [k \in 1..n |->
     [Entrant(k, 2000 - 100 * k, rnd, 0, <<>>, <<>>, -1, "") EXCEPT
        !.trn_type = "R",
        !.rand = IF against THEN n + 1 - k ELSE k,
        !.bye_rounds = IF (IF against THEN n + 1 - k ELSE k) \in withdrawn
                         THEN <<bye>> ELSE <<>>]]

RobinSections ==
  UNION {{RobinSection(n, rnd, w, bye, against) :
            rnd \in 1..n,
            w \in {w \in SUBSET (1..n) : Cardinality(w) <= 2},
            bye \in {1, n}, against \in BOOLEAN} : n \in 3..MaxRobin}

RobinArgs(n) ==
  [ totalRounds : {n - 1, n}, firstBoardNum : {1, 3}, depth : {0},
    useFirstPairings : {FALSE}, skipOptimize : {TRUE}, fold : {TRUE} ]

InitRobin ==
  /\ pl \in RobinSections
  /\ arg \in RobinArgs(Len(pl))
  /\ pc = "call"
  /\ call = 1
  /\ first = [how |-> "none", input |-> pl, pl |-> <<>>, pair |-> <<>>,
              cost |-> ZeroCost]
  /\ pair = <<>>
  /\ players = 0
  /\ opt = NoOpt
  /\ pre = NoPre
  /\ cost = ZeroCost
  /\ c1 = ZeroCost
  /\ c2 = ZeroCost
  /\ prm = <<>>

NextRobin ==
  \/ RobinLookup
  \/ RobinReturn
  \/ RobinAbort

SpecRobin == InitRobin /\ [][NextRobin]_vars

----------------------------------------------------------------------------
(* PairableCost on its own: sections in canonical form, with a pairing of  *)
(* the current round                                                       *)

\* the most players of a section handed to PairableCost, and the most
\* rounds still to come
MaxSection == 4
MaxFuture == 2

\* the pairs {a, b} of ranks below n
RankPairs(n) == {{a, b} : a, b \in 0..(n - 1)} \ {{a} : a \in 0..(n - 1)}

\* a section of n before round 2 in canonical form: met holds the pairs of
\* ranks that have played, byes[k] the rounds player k has asked off
Lookahead(n, met, byes) ==
  [k \in 1..(n + 1) |->
     IF k = n + 1 THEN [ByePlayer(2, 1) EXCEPT !.rank = n]
     ELSE LET opps == SelectSeq([r \in 1..n |-> r - 1], LAMBDA r : {k - 1, r} \in met)
          IN  [Entrant(k, 2000 - 100 * k, 2, 0, <<>>, <<>>, -1, "") EXCEPT
                 !.rank = k - 1,
                 !.bye_rounds = byes[k],
                 !.opponents = [z \in DOMAIN opps |-> <<opps[z] + 1, 0>>],
                 !.opponent_ranks = opps]]

\* the ways to put the ranks of left on boards, the upper-ranked player of
\* a board first
RECURSIVE BoardsOf(_)
BoardsOf(left) ==
  IF left = {} THEN {<<>>}
  ELSE LET a == CHOOSE x \in left : \A y \in left : x <= y
       IN  UNION {{<<a, b>> \o rest : rest \in BoardsOf(left \ {a, b})} :
                    b \in left \ {a}}

\* the pairings of the current round of a section of n: with n odd the
\* last board is of somebody and the sentinel (rank n)
CurrentPairings(n) ==
  IF n % 2 = 0 THEN BoardsOf(0..(n - 1))
  ELSE UNION {{rest \o <<x, n>> : rest \in BoardsOf((0..(n - 1)) \ {x})} :
                x \in 0..(n - 1)}

\* what a player may have asked off: nothing, or rounds 3 and 4 in part
ByeRounds == {<<>>, <<3>>, <<4>>, <<3, 4>>}

Lookaheads ==
  UNION {{[pl |-> Lookahead(n, met, byes), pair |-> p] :
            met \in {m \in SUBSET RankPairs(n) : Cardinality(m) <= 2},
            byes \in {b \in [1..n -> ByeRounds] :
                        Cardinality({k \in 1..n : b[k] # <<>>}) <= 2},
            p \in CurrentPairings(n)} : n \in 2..MaxSection}

\* PairableCost(wCodePlayers, pl, pair, remainingRounds, false), as
\* CostFunction calls it (line 1581)
CantPairPlayers ==
  /\ pc = "call"
  /\ cost' = [cost EXCEPT
                !.cantPairPlayers = PairableCost(pl, pair, arg.remainingRounds)]
  /\ pc' = "done"
  /\ UNCHANGED <<prm, c1, c2, arg, pl, pair, players, opt, call, first, pre>>

InitPairable ==
  /\ \E i \in Lookaheads : pl = i.pl /\ pair = i.pair
  /\ arg \in [remainingRounds : 0..MaxFuture]
  /\ pc = "call"
  /\ call = 1
  /\ first = [how |-> "none", input |-> pl, pl |-> <<>>, pair |-> <<>>,
              cost |-> ZeroCost]
  /\ players = Len(pl) - 1
  /\ opt = NoOpt
  /\ pre = NoPre
  /\ cost = ZeroCost
  /\ c1 = ZeroCost
  /\ c2 = ZeroCost
  /\ prm = <<>>

NextPairable == CantPairPlayers

SpecPairable == InitPairable /\ [][NextPairable]_vars
----------------------------------------------------------------------------
(* CanonicalPlayerVector on its own.  A rand of k stands for the real      *)
(* number k / (MaxRand + 1) of [0, 1).                                     *)

\* the most players of a list handed to CanonicalPlayerVector
MaxList == 3

\* "ASSERT(x.rand != y.rand)" of operator< fails when sort compares two
\* players of one rand.  Which pairs sort compares is up to the library,
\* but two neighbours of the sorted list have been compared by every sort.
SortMayAssert(pl_) ==
  \E i, j \in DOMAIN pl_ : i # j /\ pl_[i].rand = pl_[j].rand

SortMustAssert(pl_) ==
  LET s == SortSeq(pl_, PlayerLess)
  IN  \E k \in 1..(Len(s) - 1) : s[k].rand = s[k + 1].rand

\* the ASSERTs of SetRanks and CanonicalPlayerVector on the sorted list:
\* the sentinel is last, and nowhere else
SentinelLast(pl_) ==
  \A k \in DOMAIN pl_ : IsBye(pl_[k]) <=> k = Len(pl_)

\* pl as sort gets it: with the sentinel at the back
WithSentinel(pl_) ==
  IF Len(pl_) > 0 /\ IsBye(pl_[Len(pl_)]) THEN pl_
  ELSE Append(pl_, CanonicalPlayerVector(pl_)[Len(pl_) + 1])

\* CanonicalPlayerVector(pl), every ASSERT holding
Canonicalise ==
  /\ pc \in {"call", "canon"}
  /\ ~SortMustAssert(WithSentinel(pl))
  /\ SentinelLast(CanonicalPlayerVector(pl))
  /\ pl' = CanonicalPlayerVector(pl)
  /\ pre' = [pre EXCEPT !.pl = pl]
  /\ pc' = IF pc = "call" THEN "canon" ELSE "again"
  /\ UNCHANGED <<prm, c1, c2, arg, pair, players, opt, cost, call, first>>

\* CanonicalPlayerVector(pl) ended by a failed ASSERT
CanonAbort ==
  /\ pc \in {"call", "canon"}
  /\ SortMayAssert(WithSentinel(pl)) \/ ~SentinelLast(CanonicalPlayerVector(pl))
  /\ pc' = "aborted"
  /\ UNCHANGED <<prm, c1, c2, arg, pl, pair, players, opt, cost, call, first, pre>>

\* a list of n players: rand, bye_request, score and rating as given for
\* each, the first of them perhaps paired by hand, a sentinel at the back
\* or none
Listed(n, rand, request, score, rating, paired, sentinel) ==
  [k \in 1..n |->
     [Entrant(k, rating[k], 2, score[k], <<>>, <<>>, -1, "") EXCEPT
        !.rand = rand[k], !.bye_request = request[k],
        !.paired = paired /\ k = 1]]
  \o (IF sentinel THEN <<ByePlayer(2, 1)>> ELSE <<>>)

Lists ==
  UNION {{Listed(n, rand, request, score, rating, paired, sentinel) :
            rand \in {r \in [1..n -> 0..(MaxRand - 1)] :
                        \A i, j \in 1..n : i # j => r[i] # r[j]},
            request \in [1..n -> BOOLEAN],
            score \in [1..n -> {0, 2}],
            rating \in [1..n -> {1500, 1600}],
            paired \in BOOLEAN, sentinel \in BOOLEAN} : n \in 0..MaxList}

InitCanon ==
  /\ pl \in Lists
  /\ arg = [totalRounds |-> 2]
  /\ pc = "call"
  /\ call = 1
  /\ first = [how |-> "none", input |-> pl, pl |-> <<>>, pair |-> <<>>,
              cost |-> ZeroCost]
  /\ pair = <<>>
  /\ players = 0
  /\ opt = NoOpt
  /\ pre = NoPre
  /\ cost = ZeroCost
  /\ c1 = ZeroCost
  /\ c2 = ZeroCost
  /\ prm = <<>>

NextCanon ==
  \/ Canonicalise
  \/ CanonAbort

SpecCanon == InitCanon /\ [][NextCanon]_vars
----------------------------------------------------------------------------
(* FindPairings on sections with players paired by hand, bye requests and  *)
(* a house player                                                          *)

\* what a player of such a section is: "a" wants a pairing, "r" has asked
\* for a bye, "h" is the house player, "m" is paired by hand with the other
\* "m", "s" is paired by hand with nobody (a bye given by hand)
Roles ==
  { <<"a", "a">>,
    <<"a", "a", "m", "m">>,
    <<"m", "a", "a", "m", "a">>,
    <<"a", "a", "a", "r">>,
    <<"a", "r", "a", "r">>,
    <<"a", "h", "a", "a", "a">>,
    <<"a", "a", "h", "a">>,
    <<"a", "s", "a", "a">> }

\* how many of the first k players are neither "m" nor "s"
RECURSIVE Unpaired(_, _)
Unpaired(roles, k) ==
  IF k = 0 THEN 0
  ELSE Unpaired(roles, k - 1) + B2N(roles[k] \notin {"m", "s"})

\* the board_num hint of player k: the players paired by hand sit on the
\* last boards; the others two by two in the order of their numbers, or
\* ("apart") the first half against the second half, or without a hint,
\* on boards numbered from low
HintOf(roles, k, how, low) ==
  LET n == Unpaired(roles, Len(roles))
      j == Unpaired(roles, k)
      half == (n + 1) \div 2
  IN  IF roles[k] = "m" THEN low + half
      ELSE IF roles[k] = "s" THEN low + half + 1
      ELSE IF how = "none" /\ j = n THEN -1
      ELSE IF how = "apart" THEN low + ((j - 1) % half)
      ELSE low + ((j - 1) \div 2)

ByHand(roles, how, low) ==
  [k \in DOMAIN roles |->
     [Entrant(k, 2000 - 100 * k, 1, 0, <<>>, <<>>, HintOf(roles, k, how, low),
              IF k % 2 = 1 THEN "W" ELSE "B") EXCEPT
        !.bye_request = roles[k] = "r",
        !.bye_house = roles[k] = "h",
        !.paired = roles[k] \in {"m", "s"}]]

\* the lowest board_num hints of the sections
LowBoards == {1, 3}

SectionsByHand ==
  {ByHand(roles, how, low) :
     roles \in Roles, how \in {"pairs", "apart", "none"}, low \in LowBoards}

ArgsByHand ==
  [ totalRounds : {1, 2}, firstBoardNum : {0, 1}, depth : {MaxDepth},
    useFirstPairings : BOOLEAN, skipOptimize : BOOLEAN, fold : BOOLEAN ]

InitByHand ==
  /\ pl \in SectionsByHand
  /\ arg \in ArgsByHand
  /\ pc = "call"
  /\ call = 1
  /\ first = [how |-> "none", input |-> pl, pl |-> <<>>, pair |-> <<>>,
              cost |-> ZeroCost]
  /\ pair = <<>>
  /\ players = 0
  /\ opt = NoOpt
  /\ pre = NoPre
  /\ cost = ZeroCost
  /\ c1 = ZeroCost
  /\ c2 = ZeroCost
  /\ prm = <<>>

NextByHand ==
  \/ Abort
  \/ AbortBoards
  \/ Evaluate
  \/ Search
  \/ Try
  \/ Redo
  \/ Return

SpecByHand == InitByHand /\ [][NextByHand]_vars
----------------------------------------------------------------------------
(* DueColor on its own: the colour a history makes a player due *)

MaxHistory == 4

\* the letters of a color_history: played White and Black, and the lower-case
\* letters of the rounds not played
Letters == {"W", "B", "w", "b", "x"}

Histories == UNION {[1..n -> Letters] : n \in 0..MaxHistory}

Multirounds == 0..3

\* the two ASSERTs of DueColor
DueAsserts(history, multiround) ==
  /\ multiround # 1 /\ Len(history) > 0
       => multiround > 0 /\ Len(history) % multiround = 0
  /\ LET h == Compress(history, multiround)
     IN  CountOf(h, "W") + CountOf(h, "B")
           + Cardinality({k \in DOMAIN h : IsLower(h[k])}) = Len(h)

\* DueColor returns its string
DueColorReturn ==
  /\ pc = "call"
  /\ DueAsserts(arg.history, arg.multiround)
  /\ opt' = [due_color |-> DueColor(arg.history, arg.multiround)]
  /\ pc' = "done"
  /\ UNCHANGED <<prm, c1, c2, arg, pl, pair, players, cost, call, first, pre>>

\* DueColor stops in an ASSERT
DueColorAbort ==
  /\ pc = "call"
  /\ ~DueAsserts(arg.history, arg.multiround)
  /\ pc' = "aborted"
  /\ UNCHANGED <<prm, c1, c2, arg, pl, pair, players, opt, cost, call, first, pre>>

InitDue ==
  /\ arg \in [history : Histories, multiround : Multirounds]
  /\ pc = "call"
  /\ call = 1
  /\ pl = <<>>
  /\ first = [how |-> "none", input |-> pl, pl |-> <<>>, pair |-> <<>>,
              cost |-> ZeroCost]
  /\ pair = <<>>
  /\ players = 0
  /\ opt = NoOpt
  /\ pre = NoPre
  /\ cost = ZeroCost
  /\ c1 = ZeroCost
  /\ c2 = ZeroCost
  /\ prm = <<>>

NextDue ==
  \/ DueColorReturn
  \/ DueColorAbort

SpecDue == InitDue /\ [][NextDue]_vars

----------------------------------------------------------------------------
(* AllocateColor on its own: the colour of x on a board against y *)

MaxGames == 3

\* the colour histories of a player after one to MaxGames rounds
Played == UNION {[1..n -> {"W", "B", "x"}] : n \in 1..MaxGames}

\* a player of rank r with this history, with its due colour as SetRanks
\* sets it; if met, the round 1 opponent was the other player of the board
Sided(r, history, met) ==
  [Entrant(r + 1, 1500, Len(history) + 1, 0, history, [k \in 1..Len(history) |-> IF k = 1 /\ met THEN 2 - r ELSE 10 + k], 1, "") EXCEPT
     !.rank = r, !.due_color = DueColor(history, 1)]

\* the two players of a board, the upper-ranked first; they can have met in
\* round 1 if one had White and the other had Black there
Sides ==
  {<<Sided(0, h1, met), Sided(1, h2, met)>> :
     <<h1, h2, met>> \in {t \in Played \X Played \X BOOLEAN :
                            t[3] => {t[1][1], t[2][1]} = {"W", "B"}}}

\* AllocateColor gets as far as "most-recent unequal color history breaks ties"
ReachesHistory(x, y) ==
  LET met == {z \in DOMAIN x.opponents : x.opponents[z] = OppKey(y)}
      matchCountWhite == Cardinality({z \in met : ToUpper(x.played_colors[z]) = "W"})
      matchCountBlack == Cardinality({z \in met : ToUpper(x.played_colors[z]) = "B"})
      xd == x.due_color
      yd == y.due_color
  IN  /\ ~IsBye(y) /\ ~IsBye(x)
      /\ ~(xd = <<"x">> /\ yd = <<"x">>)
      /\ matchCountWhite = matchCountBlack
      /\ yd # <<"x">> /\ xd # <<"x">>
      /\ SameColor(yd[1]) = SameColor(xd[1])
      /\ ~(IsUpper(xd[1]) /\ (~IsUpper(yd[1]) \/ Len(xd) > Len(yd)))
      /\ ~(IsUpper(yd[1]) /\ (~IsUpper(xd[1]) \/ Len(yd) > Len(xd)))

\* ASSERT(x.color_history.size() == y.color_history.size())
AllocateAsserts(x, y) ==
  ReachesHistory(x, y) => Len(x.color_history) = Len(y.color_history)

\* AllocateColor returns the colour of x = pl[arg.x] against the other one
AllocateReturn ==
  /\ pc = "call"
  /\ AllocateAsserts(pl[arg.x], pl[3 - arg.x])
  /\ opt' = [board_color |-> AllocateColor(pl[arg.x], pl[3 - arg.x], arg.isOddBoard)]
  /\ pc' = "done"
  /\ UNCHANGED <<prm, c1, c2, arg, pl, pair, players, cost, call, first, pre>>

\* AllocateColor stops in its ASSERT
AllocateAbort ==
  /\ pc = "call"
  /\ ~AllocateAsserts(pl[arg.x], pl[3 - arg.x])
  /\ pc' = "aborted"
  /\ UNCHANGED <<prm, c1, c2, arg, pl, pair, players, opt, cost, call, first, pre>>

InitAllocate ==
  /\ pl \in Sides
  /\ arg \in [x : {1, 2}, isOddBoard : BOOLEAN]
  /\ pc = "call"
  /\ call = 1
  /\ first = [how |-> "none", input |-> pl, pl |-> <<>>, pair |-> <<>>,
              cost |-> ZeroCost]
  /\ pair = <<>>
  /\ players = 0
  /\ opt = NoOpt
  /\ pre = NoPre
  /\ cost = ZeroCost
  /\ c1 = ZeroCost
  /\ c2 = ZeroCost
  /\ prm = <<>>

NextAllocate ==
  \/ AllocateReturn
  \/ AllocateAbort

SpecAllocate == InitAllocate /\ [][NextAllocate]_vars

----------------------------------------------------------------------------
(* FindPairings on three players in round 2: who gets the bye *)

\* round 1 of three players: sat sat out with byePoints (doubled: 2 a full
\* point bye, 1 a half point bye, 0 a zero point bye), the other two played,
\* the upper of them with White, for upperPoints (2 won, 1 drew, 0 lost)
AfterBye(k, sat, byePoints, upperPoints, hint) ==
  LET upper == IF sat = 1 THEN 2 ELSE 1
      lower == IF sat = 3 THEN 2 ELSE 3
  IN  IF k = sat
        THEN [Entrant(k, Ratings[k], 2, byePoints, <<CASE byePoints = 2 -> "f" [] byePoints = 1 -> "h" [] OTHER -> "z">>, <<>>, hint, "W") EXCEPT
                !.played_colors = <<>>, !.unplayed_count = 1,
                !.half_bye_count = IF byePoints = 1 THEN 1 ELSE 0]
      ELSE IF k = upper
        THEN Entrant(k, Ratings[k], 2, upperPoints, <<"W">>, <<lower>>, hint, "W")
      ELSE Entrant(k, Ratings[k], 2, 2 - upperPoints, <<"B">>, <<upper>>, hint, "B")

\* the three players with board_num hints that leave alone the third
\* player of the hints
SectionsBye ==
  {[k \in 1..3 |-> AfterBye(k, sat, byePoints, upperPoints, hints[k])] :
     sat \in 1..3, byePoints \in 0..2, upperPoints \in 0..2,
     hints \in {<<1, 1, 2>>, <<1, 2, 1>>, <<2, 1, 1>>}}

\* paired from the hints or from FirstPairings, the search skipped
InitBye ==
  /\ pl \in SectionsBye
  /\ arg \in {a \in Args(2) : a.skipOptimize}
  /\ pc = "call"
  /\ call = 1
  /\ first = [how |-> "none", input |-> pl, pl |-> <<>>, pair |-> <<>>,
              cost |-> ZeroCost]
  /\ pair = <<>>
  /\ players = 0
  /\ opt = NoOpt
  /\ pre = NoPre
  /\ cost = ZeroCost
  /\ c1 = ZeroCost
  /\ c2 = ZeroCost
  /\ prm = <<>>

NextBye == Evaluate

SpecBye == InitBye /\ [][NextBye]_vars

----------------------------------------------------------------------------
(* The colour terms of CostFunction for one board of two players *)

\* CostFunction on the board of px = pl[1] and py = pl[2]: xColor from
\* AllocateColor, then F2_COLOR(ColorImbalance) and F2_COLOR(ColorAlternate),
\* each as the pair of what px and what py adds
ColorCosts ==
  /\ pc = "call"
  /\ AllocateAsserts(pl[1], pl[2])
  /\ LET xColor == AllocateColor(pl[1], pl[2], arg.isOddBoard)
     IN  opt' = [ board_color |-> xColor,
                  colorImbalance |-> <<ColorImbalance(pl[1], pl[2], xColor),
                                       ColorImbalance(pl[2], pl[1], FlipColor(xColor))>>,
                  colorAlternate |-> <<ColorAlternate(pl[1], pl[2], xColor),
                                       ColorAlternate(pl[2], pl[1], FlipColor(xColor))>> ]
  /\ pc' = "done"
  /\ UNCHANGED <<prm, c1, c2, arg, pl, pair, players, cost, call, first, pre>>

\* the boards of SpecAllocate with the upper-ranked player as px
InitColorCosts == InitAllocate /\ arg.x = 1

NextColorCosts ==
  \/ ColorCosts
  \/ AllocateAbort

SpecColorCosts == InitColorCosts /\ [][NextColorCosts]_vars

----------------------------------------------------------------------------
(* TiebreakPlayer on its own: one player's result string, any letters *)

\* the largest number of rounds of a result string
MaxRounds == 2

\* the letters TiebreakPlayer's switch has a case for
ResultLetters ==
  DoubleWin \cup WinAndDraw \cup DoubleGame \cup Wins \cup FullByes \cup Draws \cup HalfByes \cup Losses \cup Unplayed

\* result strings of up to MaxRounds letters, "?" standing for any letter
\* the switch has no case for
ResultStrings ==
  UNION {[1..n -> ResultLetters \cup {"?"}] : n \in 0..MaxRounds}

\* "default: ASSERT(0)" is not reached
LettersKnown(p) == \A x \in DOMAIN p.result : p.result[x] \in ResultLetters

\* TiebreakPlayer returns
PlayerReturn ==
  /\ pc = "call"
  /\ \A k \in DOMAIN prm : PlayerAsserts(prm[k], arg.byeKey) /\ LettersKnown(prm[k])
  /\ prm' = [k \in DOMAIN prm |-> TiebreakPlayer(prm[k], arg.byeKey)]
  /\ pc' = "done"
  /\ UNCHANGED <<c1, c2, arg, pl, pair, players, opt, cost, call, first, pre>>

\* a failed ASSERT of TiebreakPlayer ends the program
PlayerAbort ==
  /\ pc = "call"
  /\ \E k \in DOMAIN prm : ~(PlayerAsserts(prm[k], arg.byeKey) /\ LettersKnown(prm[k]))
  /\ pc' = "aborted"
  /\ UNCHANGED <<prm, c1, c2, arg, pl, pair, players, opt, cost, call, first, pre>>

InitLetters ==
  /\ \E result \in ResultStrings, black \in BOOLEAN :
       prm = (1 :> PlayerResult(1, 2000, [x \in DOMAIN result |-> 2],
                                [x \in DOMAIN result |-> IF black THEN "B" ELSE "W"],
                                result))
  /\ arg = [byeKey |-> 9]
  /\ pc = "call"
  /\ opt = [i |-> 0]
  /\ c1 = ZeroCost /\ c2 = ZeroCost /\ pl = <<>> /\ pair = <<>> /\ players = 0
  /\ cost = ZeroCost /\ call = 0 /\ first = <<>> /\ pre = NoPre

NextLetters == PlayerReturn \/ PlayerAbort

SpecLetters == InitLetters /\ [][NextLetters]_vars

----------------------------------------------------------------------------
(* TiebreakCalculation on small tournaments: player 1 against players 2    *)
(* and 3 in turn, an unplayed round against the bye                        *)

\* the result strings of player 1: up to MaxRounds rounds, or nine
SubjectResults ==
  UNION {[1..n -> {"W", "L", "D", "Z"}] : n \in 0..MaxRounds}
    \cup {[x \in 1..9 |-> "W"], [x \in 1..9 |-> "D"], [x \in 1..9 |-> "L"]}

\* the result strings of players 2 and 3
OpposingResults ==
  { <<(<<"L", "W">>), (<<"L", "W">>)>>, <<(<<"W", "W">>), (<<"L", "L">>)>>, <<(<<"D", "U">>), (<<"W", "D">>)>> }

\* the opponent of each round: other and then another in turn when the round
\* was played, the bye when not
OpponentsOf(result, other, another, bye) ==
  [x \in DOMAIN result |->
     IF ~TiebreakPlayed(result[x]) THEN bye ELSE IF x % 2 = 1 THEN other ELSE another]

Tournament(subject, opposing, bye) ==
  (1 :> PlayerResult(1, 2000, OpponentsOf(subject, 2, 3, bye), [x \in DOMAIN subject |-> IF x % 2 = 1 THEN "W" ELSE "B"], subject))
  @@ (2 :> PlayerResult(2, 1800, OpponentsOf(opposing[1], 1, 3, bye), <<"B", "W">>, opposing[1]))
  @@ (3 :> PlayerResult(3, 1700, OpponentsOf(opposing[2], 2, 1, bye), <<"B", "W">>, opposing[2]))
  @@ (bye :> PlayerResult(bye, 0, <<>>, <<>>, <<>>))

MedianInputs ==
  {[prm |-> Tournament(subject, opposing, 9), byeKey |-> 9] : subject \in SubjectResults, opposing \in OpposingResults}
    \cup {[prm |-> Draw2(9, FALSE), byeKey |-> 9]}

InitMedian ==
  /\ \E in \in MedianInputs :
       /\ prm = in.prm
       /\ arg = [byeKey |-> in.byeKey]
  /\ pc = "tb_players"
  /\ opt = [i |-> 0]
  /\ c1 = ZeroCost /\ c2 = ZeroCost /\ pl = <<>> /\ pair = <<>> /\ players = 0
  /\ cost = ZeroCost /\ call = 0 /\ first = <<>> /\ pre = NoPre

SpecMedian == InitMedian /\ [][NextTiebreak]_vars

----------------------------------------------------------------------------
(* CrenshawBergerLookup on its own: every player of a table looked up,     *)
(* round after round                                                       *)

\* the largest number of competitors
MaxTable == 10

\* the table CrenshawBergerLookup reads for this many competitors
TableSize(competitors) == competitors + (competitors % 2)

\* the lookups of one round, one for each player
LookupRound(competitors, round, withdrawnPlayer) ==
  [player \in 1..competitors |-> CrenshawBergerLookup(competitors, round, player, withdrawnPlayer)]

\* every player of the round is looked up and no ASSERT fails
LookupReturn ==
  /\ pc = "call"
  /\ \A player \in 1..arg.competitors : LookupRound(arg.competitors, arg.round, arg.withdrawnPlayer)[player].ok
  /\ opt' = [opt EXCEPT !.rounds = Append(@, LookupRound(arg.competitors, arg.round, arg.withdrawnPlayer))]
  /\ arg' = [arg EXCEPT !.round = @ + 1]
  /\ pc' = IF arg.round >= TableSize(arg.competitors) - 1 THEN "done" ELSE "call"
  /\ UNCHANGED <<prm, c1, c2, pl, pair, players, cost, call, first, pre>>

\* a failed ASSERT of CrenshawBergerLookup ends the program
LookupAbort ==
  /\ pc = "call"
  /\ \E player \in 1..arg.competitors : ~LookupRound(arg.competitors, arg.round, arg.withdrawnPlayer)[player].ok
  /\ pc' = "aborted"
  /\ UNCHANGED <<prm, c1, c2, arg, pl, pair, players, opt, cost, call, first, pre>>

InitLookup ==
  /\ \E competitors \in 3..MaxTable : \E withdrawnPlayer \in 0..competitors :
       arg = [competitors |-> competitors, withdrawnPlayer |-> withdrawnPlayer, round |-> 1]
  /\ opt = [rounds |-> <<>>]
  /\ pc = "call"
  /\ prm = <<>> /\ c1 = ZeroCost /\ c2 = ZeroCost /\ pl = <<>> /\ pair = <<>> /\ players = 0
  /\ cost = ZeroCost /\ call = 0 /\ first = <<>> /\ pre = NoPre

NextLookup == LookupReturn \/ LookupAbort

SpecLookup == InitLookup /\ [][NextLookup]_vars

----------------------------------------------------------------------------
(* FindPairings with the optimiser on and a deeper search *)

\* the deepest search of these calls
MaxDeep == 2

ArgsDeep(rnd) ==
  [ totalRounds : rnd..(rnd + MaxRemaining), firstBoardNum : {1},
    depth : 0..MaxDeep, useFirstPairings : BOOLEAN, skipOptimize : {FALSE},
    fold : BOOLEAN ]

InitDeep ==
  /\ pl \in Sections
  /\ arg \in ArgsDeep(pl[1].rnd)
  /\ pc = "call"
  /\ call = 1
  /\ first = [how |-> "none", input |-> pl, pl |-> <<>>, pair |-> <<>>,
              cost |-> ZeroCost]
  /\ pair = <<>>
  /\ players = 0
  /\ opt = NoOpt
  /\ pre = NoPre
  /\ cost = ZeroCost
  /\ c1 = ZeroCost
  /\ c2 = ZeroCost
  /\ prm = <<>>

NextDeep ==
  \/ Abort
  \/ Search
  \/ Try
  \/ Redo
  \/ Return

SpecDeep == InitDeep /\ [][NextDeep]_vars

\* the program has not ended: it has a next step
Running == pc \in {"call", "opt"}

\* the program is sequential and takes its next step as long as it has
\* one: weak fairness of NextDeep, written with Running for ENABLED
\* <<NextDeep>>_vars
FairDeep == []<>(~Running) \/ []<><<Running>>_vars

SpecDeepLive == InitDeep /\ [][NextDeep]_vars /\ FairDeep

----------------------------------------------------------------------------
(* FindPairings on a section of six players before round 3 *)

\* the ratings of P1..P6
Ratings6 == <<2000, 1800, 1700, 1500, 1400, 1300>>

\* rounds 1 and 2: P1 beat P4, P2 beat P5 and P6 beat P3, then P1 beat P2,
\* P3 beat P4 and P6 beat P5 (scores are doubled)
Opponents6 == << <<4, 2>>, <<5, 1>>, <<6, 4>>, <<1, 3>>, <<2, 6>>, <<3, 5>> >>
Colors6 == << <<"W", "B">>, <<"B", "W">>, <<"W", "B">>, <<"B", "W">>, <<"W", "B">>, <<"B", "W">> >>
Scores6 == <<4, 2, 2, 0, 0, 4>>

Round3(hints) ==
  [k \in 1..6 |->
     Entrant(k, Ratings6[k], 3, Scores6[k], Colors6[k], Opponents6[k], hints[k],
             IF \E j \in 1..(k - 1) : hints[j] = hints[k] THEN "B" ELSE "W")]

\* board_num hints: P1..P6 on three boards, two on each
Hints6 ==
  {h \in [1..6 -> 1..3] : \A b \in 1..3 : Cardinality({k \in 1..6 : h[k] = b}) = 2}

\* the build folds the read of Transpose's cv away: the cost function is a
\* function of the pairing
ArgsSix ==
  [ totalRounds : 3..4, firstBoardNum : {1}, depth : 0..1,
    useFirstPairings : BOOLEAN, skipOptimize : {FALSE}, fold : {TRUE} ]

InitSix ==
  /\ pl \in {Round3(h) : h \in Hints6}
  /\ arg \in ArgsSix
  /\ pc = "call"
  /\ call = 1
  /\ first = [how |-> "none", input |-> pl, pl |-> <<>>, pair |-> <<>>,
              cost |-> ZeroCost]
  /\ pair = <<>>
  /\ players = 0
  /\ opt = NoOpt
  /\ pre = NoPre
  /\ cost = ZeroCost
  /\ c1 = ZeroCost
  /\ c2 = ZeroCost
  /\ prm = <<>>

\* every ASSERT on the way to the search and after it holds on these
\* sections
NextSix ==
  \/ Search
  \/ Try
  \/ Redo
  \/ Return

SpecSix == InitSix /\ [][NextSix]_vars

----------------------------------------------------------------------------
(* What FindPairings leaves behind, as the caller sees it *)

\* the positions of pair_ that hold rank k
SeatsOf(pair_, k) == {p \in 0..(Len(pair_) - 1) : At(pair_, p) = k}

\* the boards of pair_ as sets of play_ids
PairedIds(pl_, pair_) ==
  {{PlAt(pl_, pair_, x).play_id, PlAt(pl_, pair_, x + 1).play_id} :
     x \in Boards(0, Len(pair_))}

\* the player of pl_ with this play_id
ById(pl_, id) == pl_[CHOOSE k \in DOMAIN pl_ : pl_[k].play_id = id]

\* is the player with this play_id on this board with this colour?
Seated(pl_, id, board, color) ==
  ById(pl_, id).board_num = board /\ ById(pl_, id).board_color = color

\* the colours of the board at x, x+1
ColorsOf(pl_, pair_, x) ==
  <<PlAt(pl_, pair_, x).board_color, PlAt(pl_, pair_, x + 1).board_color>>

\* C1 as stated: when FindPairings has returned, every player but the
\* sentinel is at exactly one position of pair, and no board holds the same
\* rank twice
C1_EverybodyOnOneBoard ==
  pc = "done" =>
    /\ \A k \in 0..(Len(pl) - 1) :
         ~IsBye(At(pl, k)) => Cardinality(SeatsOf(pair, k)) = 1
    /\ \A x \in Boards(0, Len(pair)) : At(pair, x) # At(pair, x + 1)

\* C2: when FindPairings has returned, the two board_colors of every board
\* are one "W" and one "B", the opponent of the sentinel has "W" and the
\* sentinel "B"; and AllocateColor gives "W" or "B" for any two different
\* players of the section, on odd and on even boards
C2_OneWhiteOneBlack ==
  /\ pc = "done" =>
       \A x \in Boards(0, Len(pair)) :
         /\ ColorsOf(pl, pair, x) \in {<<"W", "B">>, <<"B", "W">>}
         /\ IsBye(PlAt(pl, pair, x + 1)) => ColorsOf(pl, pair, x) = <<"W", "B">>
         /\ IsBye(PlAt(pl, pair, x)) => ColorsOf(pl, pair, x) = <<"B", "W">>
  /\ pc \in {"opt", "done"} =>
       \A j \in DOMAIN pl, k \in DOMAIN pl, isOddBoard \in BOOLEAN :
         (j # k /\ pl[j].first_color \in {"W", "B"} /\ pl[k].first_color \in {"W", "B"})
           => AllocateColor(pl[j], pl[k], isOddBoard) \in {"W", "B"}

\* C2's case: a returned pairing of two boards, the sentinel on the second
C2_Witness ==
  /\ pc = "done"
  /\ Len(pair) = 4
  /\ IsBye(PlAt(pl, pair, 3))
  /\ ColorsOf(pl, pair, 2) = <<"W", "B">>
  /\ ColorsOf(pl, pair, 0) = <<"W", "B">>

C4_SameBoardsAgain ==
  (pc = "done" /\ call = 2 /\ first.how = "hint")
    => PairedIds(pl, pair) = PairedIds(first.pl, first.pair)

\* C7 as stated: a second call of FindPairings on the same input gives the
\* same pairing, board numbers, colours and Cost
C7_SameRunAgain ==
  (pc = "done" /\ call = 2 /\ first.how = "same")
    => pair = first.pair /\ pl = first.pl /\ cost = first.cost

\* the order the spec gives Cost records: the first of the counters
\* byeChoice .. boardOrder where they differ decides
LexLess(a, b) ==
  \E k \in 1..NumCounters :
    /\ a[CounterFields[k]] < b[CounterFields[k]]
    /\ \A j \in 1..(k - 1) : a[CounterFields[j]] = b[CounterFields[j]]

\* C5 as stated: over all the moves a call of FindPairings accepts, the redo
\* with the lookahead included, each accepted cost is below the one accepted
\* before it
C5_AcceptedEverDecreasing ==
  [][(pc = "opt" /\ pc' = "opt" /\ opt.accepted # <<>>
        /\ opt'.accepted # opt.accepted)
       => LexLess(opt'.accepted[1], opt.accepted[1])]_vars

\* C5 amended: within one pass of the search (MinimizePairingCost from its
\* entry to its redo or return) the best pairing and its cost change only
\* to a cost that is less in the order of the counters: some counter is
\* lower and none of higher priority differs
C5_StrictlyLessInPass ==
  [][(pc = "opt" /\ pc' = "opt" /\ opt.searching
        /\ (opt'.bestPair # opt.bestPair \/ opt'.bestCost # opt.bestCost))
       => LexLess(opt'.bestCost, opt.bestCost)]_vars

\* C5's case: the search has just taken a candidate as the best
C5_Witness ==
  /\ pc = "opt"
  /\ opt.isFoundBetter
  /\ opt.accepted = <<opt.bestCost>>
  /\ opt.bestPair # pair

\* scenario S1: round 1, the four players P1..P4
S1Input == Len(first.input) = 4 /\ first.input[1].rnd = 1

\* scenario S2: round 2, P1 and P2 have won with White
S2Input == Len(first.input) = 4 /\ first.input[1].rnd = 2

\* C9 as stated: S1 ends with P1 White and P3 Black on board 1, P2 White
\* and P4 Black on board 2
C9_S1AsStated ==
  (pc = "done" /\ S1Input)
    => /\ Seated(pl, 1, 1, "W") /\ Seated(pl, 3, 1, "B")
       /\ Seated(pl, 2, 2, "W") /\ Seated(pl, 4, 2, "B")

\* C9 amended: S1 with FirstPairings as the starting point and the search
\* skipped ends with P1 White and P3 Black on board 1, P4 White and P2 Black
\* on board 2
C9_S1FirstPairings ==
  (pc = "done" /\ S1Input /\ arg.useFirstPairings /\ arg.skipOptimize)
    => /\ Seated(pl, 1, 1, "W") /\ Seated(pl, 3, 1, "B")
       /\ Seated(pl, 4, 2, "W") /\ Seated(pl, 2, 2, "B")

\* C9's case: S1 has been paired from FirstPairings without a search
C9_Witness ==
  /\ pc = "done" /\ S1Input /\ arg.useFirstPairings /\ arg.skipOptimize
  /\ pair = <<0, 2, 1, 3>>

\* the board of pair_ the player with this play_id is on
BoardWith(pl_, pair_, id) ==
  CHOOSE x \in Boards(0, Len(pair_)) :
    id \in {PlAt(pl_, pair_, x).play_id, PlAt(pl_, pair_, x + 1).play_id}

\* what the board of this player added to colorAlternate of the returned
\* cost
ColorAlternateOn(id) ==
  BoardCost(pre.pl, pre.pair, BoardWith(pre.pl, pre.pair, id),
            pre.remainingRounds, pre.pBegin, pre.pEnd, TRUE,
            LowestScore(pre.pl, pre.pair, pre.pBegin, pre.pEnd),
            [fold |-> TRUE, cv |-> 0]).colorAlternate

\* S2's boards: P1 and P2 on board 1, one of them with White, P3 and P4 on
\* board 2, colorAlternate 1 for board 1
S2Boards ==
  /\ ById(pl, 1).board_num = 1 /\ ById(pl, 2).board_num = 1
  /\ ById(pl, 3).board_num = 2 /\ ById(pl, 4).board_num = 2
  /\ {ById(pl, 1).board_color, ById(pl, 2).board_color} = {"W", "B"}
  /\ ColorAlternateOn(1) = 1

\* C10 as stated: S2 ends with these boards, P1 and P2 both due "b"
C10_S2AsStated ==
  (pc = "done" /\ S2Input)
    => /\ S2Boards
       /\ ById(pl, 1).due_color = <<"b">> /\ ById(pl, 2).due_color = <<"b">>

\* C10 amended: when the starting point is that of FirstPairings or the
\* search runs (skipOptimize off, depth at least 1), S2 ends with these
\* boards, P1 and P2 both due "B"
C10_S2Paired ==
  (pc = "done" /\ S2Input
     /\ (arg.useFirstPairings \/ (~arg.skipOptimize /\ arg.depth >= 1)))
    => /\ S2Boards
       /\ ById(pl, 1).due_color = <<"B">> /\ ById(pl, 2).due_color = <<"B">>

\* C10's case: the search has moved S2 from the boards of round 1 to P1
\* against P2
C10_Witness ==
  /\ pc = "done" /\ S2Input /\ ~arg.skipOptimize /\ arg.depth >= 1
  /\ ~arg.useFirstPairings
  /\ first.input[2].board_num = 2
  /\ call = 1
  /\ S2Boards
  /\ cost.colorAlternate = 2

\* C8 as stated: c1 < c2 exactly when c1 is the smaller at the first of the
\* counters byeChoice .. boardOrder where they differ, and exactly one of
\* c1 < c2, c1 == c2, c2 < c1 holds
C8_LexicographicOnCounters ==
  pc = "compared" =>
    /\ opt.less <=> LexLess(c1, c2)
    /\ B2N(opt.less) + B2N(opt.equal) + B2N(opt.greater) = 1

\* the coin flip of an entry, as its last tiebreak value
CoinFlipOf(p) == p.tiebreak_value[Len(p.tiebreak_value)]

\* every tiebreak value of the entry but the last is zero
ZeroButLast(p) ==
  \A k \in 1..(Len(p.tiebreak_value) - 1) : p.tiebreak_value[k] = RatInt(0)

S3Input == Len(first.input) = 5 /\ first.input[1].rnd = 1

\* the bye of scenario S3 has gone to P5
FifthHasBye ==
  \E x \in Boards(0, Len(pair)) :
    PlAt(pl, pair, x).play_id = 5 /\ IsBye(PlAt(pl, pair, x + 1))

\* C11 as stated: S3 ends with P5 opposite the sentinel, byeChoice 0, and
\* lowestRatedBye 0 if P5 is rated and 1 if P5 is unrated
C11_S3AsStated ==
  (pc = "done" /\ S3Input)
    => /\ FifthHasBye
       /\ cost.byeChoice = 0
       /\ cost.lowestRatedBye = IF ById(pl, 5).is_unrated THEN 1 ELSE 0

\* C11 amended: S3 paired from FirstPairings with the search skipped ends
\* with P5 opposite the sentinel and byeChoice 0; lowestRatedBye is 0 if P5
\* is rated or the event uses no ratings, and if P5 is unrated it is 1 when
\* provisional + totalRounds - unplayed_count - 1 is 4 or more, and 2 when
\* it is less
C11_S3FirstPairings ==
  (pc = "done" /\ S3Input /\ arg.useFirstPairings /\ arg.skipOptimize)
    => /\ FifthHasBye
       /\ cost.byeChoice = 0
       /\ cost.lowestRatedBye =
            IF ~ById(pl, 5).is_unrated \/ ById(pl, 5).use_rating = "none" THEN 0
            ELSE IF ById(pl, 5).provisional + arg.totalRounds
                      - ById(pl, 5).unplayed_count - 1 >= 4 THEN 1
            ELSE 2

\* C11's case: S3 has been paired from FirstPairings, the unrated P5 with
\* too few games has the bye
C11_Witness ==
  /\ pc = "done" /\ S3Input /\ arg.useFirstPairings /\ arg.skipOptimize
  /\ pair = <<0, 2, 1, 3, 4, 5>>
  /\ ById(pl, 5).is_unrated
  /\ cost.lowestRatedBye = 2

\* scenario S4: the table of size 4 (three players and the sentinel as
\* player 4), round 3, player 2 withdrawn, every player looked up
S4Input ==
  /\ pc \in {"robin", "done"}
  /\ Len(pl) = 4
  /\ (pl[1].rnd - 1) \div pl[1].multiround + 1 = 3
  /\ opt.withdrawnPlayer = 2

\* the pairing "1-2 3-4" of size 4, round 3
S4Pairing ==
  /\ pl[1].board_num = arg.firstBoardNum /\ pl[2].board_num = arg.firstBoardNum
  /\ pl[3].board_num = arg.firstBoardNum + 1 /\ pl[4].board_num = arg.firstBoardNum + 1

Available(r) ==
  {k - 1 : k \in {k \in 1..(Len(pl) - 1) :
                    \A z \in DOMAIN pl[k].bye_rounds : pl[k].bye_rounds[z] # r}}

\* the pairs that may not meet any more: past opponents and the boards of
\* the current pairing
MetSoFar ==
  UNION {{{pl[k].rank, pl[k].opponent_ranks[z]} : z \in DOMAIN pl[k].opponent_ranks} :
           k \in 1..(Len(pl) - 1)}
  \cup {{At(pair, y), At(pair, y + 1)} : y \in Boards(0, Len(pair))}

\* the ways to pair everybody of free but at most one, no pair of forbidden
RECURSIVE RoundsOf(_, _)
RoundsOf(free, forbidden) ==
  IF Cardinality(free) <= 1 THEN {{}}
  ELSE LET a == CHOOSE x \in free : \A y \in free : x <= y
       IN  UNION {{{{a, b}} \cup m : m \in RoundsOf(free \ {a, b}, forbidden)} :
                    b \in {b \in free \ {a} : {a, b} \notin forbidden}}
           \cup (IF Cardinality(free) % 2 = 1 THEN RoundsOf(free \ {a}, forbidden)
                 ELSE {})

\* can rounds r and later be played with nobody meeting twice?
RECURSIVE Completable(_, _)
Completable(r, forbidden) ==
  IF r > pl[1].rnd + arg.remainingRounds THEN TRUE
  ELSE \E m \in RoundsOf(Available(r), forbidden) :
         Completable(r + 1, forbidden \cup m)

\* C13: PairableCost without teams returns 1 if and only if the remaining
\* rounds cannot be completed with nobody meeting twice, and 0 whenever they
\* can, also when a round to come has fewer than two players free to play
C13_OneIffNoCompletion ==
  pc = "done"
    => cost.cantPairPlayers = B2N(~Completable(pl[1].rnd + 1, MetSoFar))

\* strictly ascending under the player order
Ascending(pl_) ==
  \A k \in 1..(Len(pl_) - 1) : PlayerLess(pl_[k], pl_[k + 1])

\* C14: canonicalisation of a list whose players have distinct rand values
\* of [0, 1) violates no assertion and leaves the list strictly ascending
\* under the player order, with exactly one sentinel, the last element, and
\* rank x at index x; canonicalising again changes nothing
C14_CanonicalForm ==
  /\ pc # "aborted"
  /\ pc \in {"canon", "again"}
       => /\ Ascending(pl)
          /\ SentinelLast(pl)
          /\ \A k \in DOMAIN pl : pl[k].rank = k - 1
  /\ pc = "again" => pl = pre.pl

\* slot 2k of pair_ holds the upper-ranked player of its board, never the
\* sentinel
UpperFirst(pl_, pair_) ==
  \A x \in Boards(0, Len(pair_)) :
    At(pair_, x) < At(pair_, x + 1) /\ ~IsBye(PlAt(pl_, pair_, x))

\* the sentinel is in no slot of pair_ but the last
SentinelInLastSlot(pl_, pair_) ==
  \A p \in 0..(Len(pair_) - 1) : IsBye(PlAt(pl_, pair_, p)) => p = Len(pair_) - 1

\* the sentinel is in the last slot only, unless somebody of pl_ has asked
\* for a bye or is paired by hand
SentinelAfterByes(pl_, pair_) ==
  \/ SentinelInLastSlot(pl_, pair_)
  \/ \E k \in DOMAIN pl_ : pl_[k].bye_request \/ pl_[k].paired

\* the pairing vectors C15 is about, each with the player vector it indexes:
\* what HintPairings gives, the candidate the search is about to cost, and
\* the final result
PairingVectors ==
  (IF pc # "aborted"
     THEN {[pl |-> Canon(first.input), pair |-> Hinted(first.input)]} ELSE {})
  \cup (IF pc = "opt" /\ opt.searching /\ Candidate(pl, opt, opt.i, opt.s).ok
          THEN {[pl |-> pl, pair |-> Candidate(pl, opt, opt.i, opt.s).pair]}
          ELSE {})
  \cup (IF pc = "done" THEN {[pl |-> pl, pair |-> pair]} ELSE {})

\* C15 as stated: in every pairing vector of HintPairings, of the search
\* after normalisation and of the result, slot 2k holds the upper-ranked
\* player of the board and never the sentinel, and the sentinel is in the
\* last slot only
C15_SentinelLastOnly ==
  \A v \in PairingVectors :
    UpperFirst(v.pl, v.pair) /\ SentinelInLastSlot(v.pl, v.pair)

\* C15 amended: slot 2k holds the upper-ranked player of the board and never
\* the sentinel, so the sentinel is in odd slots only, after a player who
\* gets a bye; it is in the last slot only when nobody has asked for a bye
\* and nobody is paired by hand
C15_SentinelInOddSlots ==
  \A v \in PairingVectors :
    UpperFirst(v.pl, v.pair) /\ SentinelAfterByes(v.pl, v.pair)

\* C15's case: the search is about to cost a candidate with the sentinel on
\* two boards
C15_Witness ==
  /\ pc = "opt" /\ opt.searching
  /\ Candidate(pl, opt, opt.i, opt.s).ok
  /\ Cardinality({p \in 1..Len(Candidate(pl, opt, opt.i, opt.s).pair) :
                    IsBye(pl[Candidate(pl, opt, opt.i, opt.s).pair[p] + 1])}) = 2

\* the slots of a history that count: the first of each multiround block
FirstSlots(history, multiround) ==
  {k \in 1..Len(history) : multiround >= 1 => (k - 1) % multiround = 0}

\* the slots that count and were played with the colour c
PlayedAs(history, multiround, c) ==
  {k \in FirstSlots(history, multiround) : history[k] = c}

\* the last slot that counts and was played
MostRecent(history, multiround) ==
  CHOOSE k \in PlayedAs(history, multiround, "W") \cup PlayedAs(history, multiround, "B") :
    \A j \in PlayedAs(history, multiround, "W") \cup PlayedAs(history, multiround, "B") : j <= k

\* C16: with W and B the numbers of 'W' and 'B' among the first slots of the
\* multiround blocks, DueColor gives "x" if no such slot was played, W-B
\* times 'B' if W > B, B-W times 'W' if B > W, and otherwise the lower-case
\* letter of the colour opposite to the most recent played one
C16_DueColor ==
  pc = "done" /\ "due_color" \in DOMAIN opt =>
    LET W == Cardinality(PlayedAs(arg.history, arg.multiround, "W"))
        B == Cardinality(PlayedAs(arg.history, arg.multiround, "B"))
        due == opt.due_color
    IN  /\ W + B = 0 => due = <<"x">>
        /\ W > B => Len(due) = W - B /\ \A k \in 1..Len(due) : due[k] = "B"
        /\ B > W => Len(due) = B - W /\ \A k \in 1..Len(due) : due[k] = "W"
        /\ W = B /\ W > 0 =>
             due = <<IF arg.history[MostRecent(arg.history, arg.multiround)] = "W"
                       THEN "b" ELSE "w">>

\* C16's case: a history of two-game rounds whose first games were both
\* White, and DueColor has answered "BB"
C16_Witness ==
  /\ pc = "done" /\ "due_color" \in DOMAIN opt
  /\ arg.multiround = 2
  /\ arg.history = <<"W", "B", "W", "B">>
  /\ opt.due_color = <<"B", "B">>

\* both players of the board are due the same equalising colour and have
\* not met before
BothEqualising ==
  /\ pl[1].due_color[1] \in {"W", "B"}
  /\ pl[2].due_color[1] = pl[1].due_color[1]
  /\ \A z \in DOMAIN pl[1].opponents : pl[1].opponents[z] # OppKey(pl[2])

\* the colour AllocateColor has given to pl[k]
Allocated(k) ==
  IF k = arg.x THEN opt.board_color ELSE FlipColor(opt.board_color)

\* the one of the two with the longer due colour, the upper-ranked if the
\* lengths are equal
Stronger ==
  IF Len(pl[1].due_color) >= Len(pl[2].due_color) THEN 1 ELSE 2

\* the two colour histories show the same colour in every round
SameHistories ==
  /\ Len(pl[1].color_history) = Len(pl[2].color_history)
  /\ \A z \in DOMAIN pl[1].color_history :
       SameColor(pl[1].color_history[z]) = SameColor(pl[2].color_history[z])

\* C17 as stated: of two players due the same equalising colour who have not
\* met, the one with the longer due colour gets it, and with equal lengths
\* the upper-ranked one gets it
C17_UpperRankOnEqualLength ==
  pc = "done" /\ "board_color" \in DOMAIN opt /\ BothEqualising =>
    Allocated(Stronger) = pl[Stronger].due_color[1]

\* C17 amended: the one with the longer due colour gets it, and with equal
\* lengths the upper-ranked one gets it if the two colour histories show the
\* same colour in every round
C17_UpperRankOnEqualHistory ==
  pc = "done" /\ "board_color" \in DOMAIN opt /\ BothEqualising =>
    \/ Len(pl[1].due_color) = Len(pl[2].due_color) /\ ~SameHistories
    \/ Allocated(Stronger) = pl[Stronger].due_color[1]

\* C17's case: x is the lower-ranked of two players with the same history,
\* both due Black, and x has been given White
C17_Witness ==
  /\ pc = "done" /\ "board_color" \in DOMAIN opt /\ BothEqualising
  /\ arg.x = 2
  /\ pl[1].color_history = <<"W", "x", "W">>
  /\ SameHistories
  /\ opt.board_color = "W"

\* the boards of pair_ as pairs of play_ids, those with an occupant who is
\* paired by hand or has asked for a bye
BoardsByHand(pl_, pair_) ==
  {<<PlAt(pl_, pair_, x).play_id, PlAt(pl_, pair_, x + 1).play_id>> :
     x \in {y \in Boards(0, Len(pair_)) :
              \E p \in {PlAt(pl_, pair_, y), PlAt(pl_, pair_, y + 1)} :
                p.paired \/ p.bye_request}}

\* the players paired with each other by hand: both paired, the same hint
PairedByHand ==
  {<<a, b>> \in (DOMAIN first.input) \X (DOMAIN first.input) :
     /\ a < b
     /\ first.input[a].paired /\ first.input[b].paired
     /\ first.input[a].board_num = first.input[b].board_num}

\* the two players are on one board of the result, and know it
OpponentsInOutput(ida, idb) ==
  /\ \E x \in Boards(0, Len(pair)) :
       {PlAt(pl, pair, x).play_id, PlAt(pl, pair, x + 1).play_id} = {ida, idb}
  /\ \E a, b \in DOMAIN pl :
       /\ pl[a].play_id = ida /\ pl[b].play_id = idb
       /\ pl[a].board_num = pl[b].board_num

\* the first slot after the boards of the players who want a pairing
SearchEnd == ((players + 1) \div 2) * 2

\* C18: two players paired by hand on one board are opponents in the result;
\* the search changes no slot outside the boards of the players who want a
\* pairing, in its candidates and in its best pairing; and the boards that
\* HintPairings gives to players paired by hand and to bye requests are
\* boards of the result
C18_HandPairedKept ==
  /\ pc = "done" =>
       /\ \A t \in PairedByHand :
            OpponentsInOutput(first.input[t[1]].play_id, first.input[t[2]].play_id)
       /\ BoardsByHand(Canon(first.input), Hinted(first.input))
            \subseteq BoardsByHand(pl, pair)
  /\ pc = "opt" =>
       /\ \A p \in SearchEnd..(Len(pair) - 1) : At(opt.bestPair, p) = At(pair, p)
       /\ opt.searching /\ Candidate(pl, opt, opt.i, opt.s).ok =>
            \A p \in SearchEnd..(Len(pair) - 1) :
              At(Candidate(pl, opt, opt.i, opt.s).pair, p) = At(pair, p)

\* C18's case: the search has changed the pairing of a section with two
\* players paired by hand, and the result is there
C18_Witness ==
  /\ pc = "done"
  /\ PairedByHand # {}
  /\ ~arg.skipOptimize
  /\ pre.pair # Start(first.input, arg.useFirstPairings)

\* the fields of a player that FindPairings is to leave alone
InputFields ==
  {"score", "rating", "bye_request", "bye_house", "paired", "opponents",
   "played_colors", "color_history", "teammates", "bye_rounds"}

\* the player of pl with the play_id and reentry of p
Same(p) ==
  CHOOSE q \in {pl[k] : k \in DOMAIN pl} :
    q.play_id = p.play_id /\ q.reentry = p.reentry

\* C19: after FindPairings every player of the input has the score, rating,
\* bye_request, bye_house, paired, opponents, played_colors, color_history,
\* teammates and bye_rounds it came with, also when the number of players
\* who want a pairing is odd and one of them is a house player
C19_InputsReadOnly ==
  pc = "done" =>
    \A k \in DOMAIN first.input :
      \A field \in InputFields : Same(first.input[k])[field] = first.input[k][field]

\* the board_num hints of the players that came in; -1 is no hint
InputHints == {first.input[k].board_num : k \in {j \in DOMAIN first.input : ~IsBye(first.input[j]) /\ first.input[j].board_num # -1}}

\* the least of a set of numbers
Least(S) == CHOOSE n \in S : \A m \in S : n <= m

\* the number of the first board: firstBoardNum, or the lowest hint for 0
FirstNumber == IF arg.firstBoardNum = 0 THEN Least(InputHints) ELSE arg.firstBoardNum

\* the board_num the result gives to the players on its boards
OutputNumbers == {PlAt(pl, pair, p).board_num : p \in {q \in 0..(Len(pair) - 1) : ~IsBye(PlAt(pl, pair, q))}}

\* C20: in the result the players of the board at index k of the final
\* order have board_num = firstBoardNum + k, so distinct boards have distinct
\* numbers; every board with the sentinel comes after every board without
\* it; the sentinel has board_num -1; and with firstBoardNum 0 the lowest
\* board number is the lowest board_num hint of the input
C20_BoardNumbers ==
  pc = "done" =>
    /\ \A x \in Boards(0, Len(pair)) :
         \A p \in {x, x + 1} :
           IF IsBye(PlAt(pl, pair, p)) THEN PlAt(pl, pair, p).board_num = -1
           ELSE PlAt(pl, pair, p).board_num = FirstNumber + x \div 2
    /\ \A x, y \in Boards(0, Len(pair)) :
         IsBye(PlAt(pl, pair, x + 1)) /\ ~IsBye(PlAt(pl, pair, y + 1)) => y < x
    /\ pl[Len(pl)].board_num = -1
    /\ arg.firstBoardNum = 0 /\ pair # <<>> => Least(OutputNumbers) = Least(InputHints)

\* the players on the boards that CostFunction has costed, the sentinel apart
RealPaired ==
  {PlAt(pl, pair, p) : p \in {q \in 0..(pre.pEnd - 1) : ~IsBye(PlAt(pl, pair, q))}}

\* the players who are paired with the bye without having asked for it
ByeReceivers ==
  {PlAt(pl, pair, x) : x \in {y \in Boards(0, pre.pEnd) : IsBye(PlAt(pl, pair, y + 1)) /\ ~PlAt(pl, pair, y).bye_request}}

\* the lowest score among the real players being paired
LowestRealScore == CHOOSE m \in {p.score : p \in RealPaired} : \A q \in RealPaired : m <= q.score

\* C21: with lowestScore the lowest score among the real players being
\* paired, lowestScoreBye is zero when the player paired with the bye is of
\* that lowest score group, and M(2*(score - lowestScore), N) when a player
\* of a higher score group who has not asked for it gets the bye (N the
\* size of the player list; scores are doubled here)
C21_LowestScoreBye ==
  pc = "done" /\ RealPaired # {} =>
    cost.lowestScoreBye = SumSeq([k \in 1..Len(pl) |-> IF pl[k] \in ByeReceivers THEN Multiple(pl[k].score - LowestRealScore, Len(pl)) ELSE 0])

\* the colour pl[k] has on the board CostFunction has costed
OnBoard(k) == IF k = 1 THEN opt.board_color ELSE FlipColor(opt.board_color)

\* the rounds pl[k] has played with a colour
PlayedRounds(k) == {z \in DOMAIN pl[k].color_history : pl[k].color_history[z] \in {"W", "B"}}

\* the colour of the most recent round pl[k] has played ("" if none)
LastColor(k) ==
  IF PlayedRounds(k) = {} THEN ""
  ELSE pl[k].color_history[CHOOSE z \in PlayedRounds(k) : \A w \in PlayedRounds(k) : w <= z]

LetterValue(letter) ==
  CASE letter = "$" -> 4
    [] letter = "#" -> 3
    [] letter \in {"%", "W", "N", "B", "X"} -> 2
    [] letter \in {"D", "R", "H"} -> 1
    [] OTHER -> 0

\* C23: when TiebreakPlayer has returned, the player's raw score is the sum
\* over the rounds of the value of the result letter, where $ = 2, # = 1.5,
\* % = 1, W/N = 1, B/X = 1, D/R = 0.5, H = 0.5, and Z, L/S and U/F/* = 0
C23_RawScore ==
  pc = "done" /\ 1 \in DOMAIN prm /\ prm[1].player # arg.byeKey
    => prm[1].rawScore = Rat(SumSeq([x \in DOMAIN prm[1].result |-> LetterValue(prm[1].result[x])]), 2)

\* the score of a player, in half points: the sum of the values of the
\* result letters
ScoreOf(p) == SumSeq([x \in DOMAIN p.result |-> LetterValue(p.result[x])])

\* the adjusted scores of the opponents of p, an unplayed round counting 0,
\* lowest first
OpponentAdjusted(p) ==
  SortSeq([x \in DOMAIN p.result |-> IF TiebreakPlayed(p.result[x]) THEN prm[p.opponent[x]].adjScore ELSE RatInt(0)], RatLess)

\* the sum of the first k and of the last k of a sorted list
LowestOf(adj, k) == RatSum(SubSeq(adj, 1, k))
HighestOf(adj, k) == RatSum(SubSeq(adj, Len(adj) - k + 1, Len(adj)))

\* the Modified Median of a player with n rounds, by rule 34E1
TrimmedSolkoff(p) ==
  LET n == Len(p.result)
      adj == OpponentAdjusted(p)
      k == IF n >= 9 THEN 2 ELSE 1
  IN  IF n < 2 THEN RatInt(0)
      ELSE RatSub(RatSub(RatSum(adj), IF ScoreOf(p) >= n THEN LowestOf(adj, k) ELSE RatInt(0)),
                  IF ScoreOf(p) <= n THEN HighestOf(adj, k) ELSE RatInt(0))

\* three players, each with one win and one loss over two rounds
OneWinOneLoss ==
  \A k \in 1..3 : k \in DOMAIN prm /\ prm[k].result \in {<<"W", "L">>, <<"L", "W">>} /\ Len(prm[k].opponent) = 2 /\ {prm[k].opponent[1], prm[k].opponent[2]} = (1..3) \ {k}

\* C24: when TiebreakCalculation has returned, the value M of every player
\* is the Solkoff sum of the opponents' adjusted scores (unplayed rounds
\* counting 0) less the lowest of them when the player's score is at least
\* half the number n of rounds and less the highest when it is at most half
\* (two of them when n >= 9), and 0 when n < 2; the value S is the Solkoff
\* sum; in the round-robin of three with a win and a loss each, M is 0 and S
\* is 2
C24_ModifiedMedian ==
  pc = "done" =>
    /\ \A k \in DOMAIN prm \ {arg.byeKey} :
         /\ prm[k].tiebreak_value[1] = TrimmedSolkoff(prm[k])
         /\ prm[k].tiebreak_value[2] = RatSum(OpponentAdjusted(prm[k]))
    /\ OneWinOneLoss => \A k \in 1..3 : prm[k].tiebreak_value[1] = RatInt(0) /\ prm[k].tiebreak_value[2] = RatInt(2)

\* the table sizes C25 is about
EvenTables == {4, 6, 8, 10}

\* the players a round puts on a board
OnTableBoard(found, board) == {p \in DOMAIN found : found[p].board = board}

\* the rounds looked up so far in which p and q sit on the same board
Meetings(p, q) == {r \in DOMAIN opt.rounds : opt.rounds[r][p].board = opt.rounds[r][q].board}

\* the round from which the reversals for this table and withdrawn player
\* count
StartRounds(size, withdraw) ==
  {roundRobinReversals[x][2] : x \in {x \in DOMAIN roundRobinReversals : roundRobinReversals[x][1] = size /\ roundRobinReversals[x][3] = withdraw}}

\* C25: for a table of 4, 6, 8 or 10, any withdrawn player and any round,
\* CrenshawBergerLookup fails no ASSERT for any player and gives a board in
\* 1..N/2 and a colour W or B; every board of a round has two players, of
\* opposite colours; when all rounds are looked up every two players have
\* met in exactly one round; a reversed colour is given only in a round at
\* or after the start round of the reversal row
C25_LookupWellDefined ==
  arg.competitors \in EvenTables =>
    /\ pc # "aborted"
    /\ \A r \in DOMAIN opt.rounds :
         /\ \A p \in 1..arg.competitors :
              /\ opt.rounds[r][p].board \in 1..(arg.competitors \div 2)
              /\ opt.rounds[r][p].color \in {"W", "B"}
              /\ opt.rounds[r][p].isReversed => \A start \in StartRounds(arg.competitors, arg.withdrawnPlayer) : r >= start
         /\ \A board \in 1..(arg.competitors \div 2) :
              /\ Cardinality(OnTableBoard(opt.rounds[r], board)) = 2
              /\ {opt.rounds[r][p].color : p \in OnTableBoard(opt.rounds[r], board)} = {"W", "B"}
    /\ pc = "done" =>
         /\ Len(opt.rounds) = arg.competitors - 1
         /\ \A p, q \in 1..arg.competitors : p # q => Cardinality(Meetings(p, q)) = 1

\* a table of ten is looked up to the last round and a colour was reversed
C25_Witness ==
  /\ pc = "done"
  /\ arg.competitors = 10
  /\ \E r \in DOMAIN opt.rounds : \E p \in 1..arg.competitors : opt.rounds[r][p].isReversed

\* a step of the search in which the candidate is taken as the best
Accepting == pc = "opt" /\ opt.searching /\ pc' = "opt" /\ opt'.bestCost # opt.bestCost

\* C26 as stated: after a move is accepted at a depth d >= 2 the next
\* candidate tried is one of depth 1, and no further tuple is tried once
\* the best cost is zero
C26_ResumesAtDepthOne ==
  [][/\ Accepting /\ opt.d >= 2 /\ opt'.searching => opt'.d = 1
     /\ pc' = "opt" /\ opt'.searching /\ opt'.s = 0 => ~IsZero(opt'.bestCost)]_vars

\* C26: after a move is accepted at depth d the next candidate tried is
\* never one of a smaller depth (the pass goes on and is then repeated at
\* the same d, so the search is back at depth 1 only when d = 1), and no
\* further tuple is tried once the best cost is zero
C26_ResumesAtSameDepth ==
  [][/\ Accepting /\ opt'.searching => opt'.d >= opt.d
     /\ pc' = "opt" /\ opt'.searching /\ opt'.s = 0 => ~IsZero(opt'.bestCost)]_vars

\* a move was accepted in a pass of depth 2 and the search goes on
C26_Witness ==
  pc = "opt" /\ opt.searching /\ opt.d = 2 /\ opt.isFoundBetter

\* the search of MinimizePairingCost is over and nothing is to be redone:
\* the pass that ended was the final one
FinalPass ==
  /\ pc = "opt"
  /\ ~opt.searching
  /\ \E check \in Uninits(arg.fold) :
       opt.usePairableCost \/ CostEq(CostFunction(pl, opt.bestPair, opt.remainingRounds, opt.pBegin, opt.pEnd, FALSE, TRUE, check).c, opt.bestCost)

\* the pairs of positions of the optimised range that hold no bye
SwapPairs ==
  {i \in (opt.pBegin..(opt.pEnd - 1)) \X (opt.pBegin..(opt.pEnd - 1)) :
     i[1] < i[2] /\ ~IsBye(PlAt(pl, opt.bestPair, i[1])) /\ ~IsBye(PlAt(pl, opt.bestPair, i[2]))}

\* the move variants of a pair of positions: the swap, and the seven
\* rotations when the positions are more than two apart
Variants(i) == 0..(NumS(i) - 1)

\* does move s on the pair i of positions give a pairing that some run of
\* the cost function of the final pass costs strictly lower than the best?
Improves(i, s) ==
  /\ Candidate(pl, opt, i, s).ok
  /\ \E uninit \in Uninits(arg.fold) :
       CostLess(CostFunction(pl, Candidate(pl, opt, i, s).pair, opt.remainingRounds, opt.pBegin, opt.pEnd, FALSE, opt.usePairableCost, uninit).c, opt.bestCost)

\* C27: when the search (of depth 1 or more) has ended for good with a best
\* cost that is not zero, no swap of two positions of the range that hold
\* no bye and no rotation of them, put in rank order and sorted by
\* SortBoards, costs
\* strictly less than the best pairing under the cost function of the final
\* pass
C27_LocallyOptimal ==
  FinalPass /\ opt.depth >= 1 /\ ~IsZero(opt.bestCost) => \A i \in SwapPairs : \A s \in Variants(i) : ~Improves(i, s)

\* where the tuple i stands in the enumeration of a pass: i[0] runs fastest
Place(o, i) == SumSeq([j \in DOMAIN i |-> i[j] * (o.pEnd ^ (j - 1))])

\* a step of the search after which a new pass of the same depth is under
\* way: the enumeration has wrapped around and starts again
PassRepeated ==
  /\ pc = "opt" /\ opt.searching /\ pc' = "opt" /\ opt'.searching
  /\ opt'.d = opt.d /\ opt'.s = 0 /\ Place(opt', opt'.i) <= Place(opt, opt.i)

\* the step "redo using PairableCost"
Redoing == pc = "opt" /\ ~opt.searching /\ pc' = "opt"

\* C28: FindPairings with depth >= 1 (and so MinimizePairingCost) comes to
\* an end; a pass is repeated at the same depth only after a move that
\* made the best cost strictly less; isFoundBetter is raised only by such a
\* move; the redo with the lookahead happens at most once: it turns
\* usePairableCost from false to true, and it stays true
C28_Terminates ==
  /\ <>(pc \in {"done", "aborted"})
  /\ [][/\ PassRepeated => opt.isFoundBetter \/ CostLess(opt'.bestCost, opt.bestCost)
        /\ pc = "opt" /\ opt.searching /\ pc' = "opt" /\ ~opt.isFoundBetter /\ opt'.isFoundBetter /\ opt'.d = opt.d
             => CostLess(opt'.bestCost, opt.bestCost)
        /\ Redoing => ~opt.usePairableCost /\ opt'.usePairableCost
        /\ pc = "opt" /\ pc' = "opt" /\ opt.usePairableCost => opt'.usePairableCost]_vars

\* a search of depth 2 that repeated a pass and was redone with the
\* lookahead has returned
C28_Witness ==
  pc = "done" /\ opt.depth = 2 /\ opt.usePairableCost /\ opt.accepted # <<>>

----------------------------------------------------------------------------
(* C29: what the search returns against where it started *)

\* the fields of a Cost other than reversedColors, boardOverlap and
\* boardOrder, in the order operator< compares them
ComparedFields ==
  SelectSeq(CostFields,
            LAMBDA f : f \notin {"reversedColors", "boardOverlap", "boardOrder"})

\* a is lexicographically greater than b on the compared fields
GreaterCompared(a, b) ==
  \E k \in DOMAIN ComparedFields :
    /\ a[ComparedFields[k]] > b[ComparedFields[k]]
    /\ \A j \in 1..(k - 1) : a[ComparedFields[j]] = b[ComparedFields[j]]

\* the costs the starting pairing of the call can be given with the
\* lookahead enabled
StartingCosts ==
  {CostFunction(Canon(first.input), Start(first.input, arg.useFirstPairings),
                opt.remainingRounds, opt.pBegin, opt.pEnd, FALSE, TRUE,
                uninit).c : uninit \in Uninits(arg.fold)}

\* FindPairings has returned from a search
Searched == pc = "done" /\ ~arg.skipOptimize

\* C29: the Cost MinimizePairingCost returns is, on the fields other than
\* reversedColors, boardOverlap and boardOrder, never lexicographically
\* greater than the cost of the starting pairing with the lookahead
\* enabled, redo or not
C29_NeverWorse ==
  Searched => \A c \in StartingCosts : ~GreaterCompared(cost, c)


----------------------------------------------------------------------------
(* C30: AllocateColor seen from the two sides of a board *)

\* AllocateColor has returned the colour of pl[arg.x]
Coloured == pc = "done" /\ "board_color" \in DOMAIN opt

\* the colour the other player of the board is given when it is asked first
Opposing == AllocateColor(pl[3 - arg.x], pl[arg.x], arg.isOddBoard)

\* C30: for two players of one first_color whose histories agree on the
\* games between them, and either parity of the board, AllocateColor(x, y, b)
\* is White or Black and the opposite of AllocateColor(y, x, b): the colour
\* the cost function evaluates for the first player of a board is the colour
\* "set boards and colors" gives that player by asking for the second one
C30_Antisymmetric ==
  Coloured =>
    /\ opt.board_color \in {"W", "B"}
    /\ Opposing = FlipColor(opt.board_color)

\* the lower-ranked player was asked first, as "set boards and colors" does,
\* with the same history as the other one, and the ranks broke the tie
C30_Witness ==
  /\ Coloured
  /\ arg.x = 2
  /\ ReachesHistory(pl[2], pl[1])
  /\ HistoryTieBreak(pl[2].color_history, pl[1].color_history, Len(pl[2].color_history)) = ""
  /\ opt.board_color = FlipColor(pl[1].due_color[1])
=============================================================================
